---- MODULE Spec2Model ----
(***************************************************************************)
(* The interceptor pipeline of gobatis: PluginManager (plugins/manager.go) *)
(* and Plugin, Invocation, InvocationContext and PluginChain (package      *)
(* plugins).                                                               *)
(*                                                                         *)
(* One PluginManager, and one PluginChain instance at a time together with *)
(* the Invocation it was last handed.  The interceptors, the terminal call *)
(* and the rollback callbacks are user code: what they do is chosen        *)
(* nondeterministically at each step.  Intercept activations are kept on   *)
(* a stack, as the Go call stack keeps them: invocation.Proceed() pushes   *)
(* the next plugin's activation or calls the target, a return pops one.    *)
(*                                                                         *)
(* After Proceed has replaced invocation.Proceed by its closure, a later   *)
(* Proceed call with the same Invocation finds that closure as the         *)
(* "original" Proceed; calling it runs proceedNext with the Proceed that   *)
(* was first handed over, so the target reached is the same and only       *)
(* hasProceed (that first Proceed was not nil) is kept.                    *)
(*                                                                         *)
(* SpecChain: a chain built with NewPluginChain and driven by Proceed.     *)
(* Spec: the manager (AddPlugin, RemovePlugin) and InterceptMethod.        *)
(* SpecMgr: the manager alone, with a record of the registrations.         *)
(* SpecConc: goroutines in AddPlugin, RemovePlugin and GetPlugins, step by *)
(* step under PluginManager.mutex.                                         *)
(* SpecCtx: two concurrent dispatches, each with its InvocationContext     *)
(* and its mutex; ExecuteRollback runs the callbacks one at a time.        *)
(* SpecSession: DefaultSqlSession (gobatis.go) over a manager that may     *)
(* hold the PaginationPlugin.  SpecPaging: the PaginationPlugin called on  *)
(* its own, with the caller's PageRequest object kept between calls.       *)
(***************************************************************************)
EXTENDS Integers, Sequences, FiniteSets, TLC

\* ---------------------------------------------------------------- bounds
MaxPlugins == 2        \* longest plugin list (registry and chain)
MaxProceedCalls == 2   \* invocation.Proceed() calls one Intercept may make
MaxRollback == 2       \* rollback callbacks registered on one context
MaxChainCalls == 2     \* chain.Proceed calls made on one chain instance
MaxAddCalls == 2       \* AddPlugin calls one goroutine makes
MaxRemoveCalls == 1    \* RemovePlugin calls that find a plugin
MaxReads == 2          \* GetPlugins calls the reading goroutine makes
MaxPage == 2           \* largest ordinary Page a caller asks for
MaxSize == 2           \* largest ordinary Size a caller asks for
MaxOffset == 1         \* largest Offset a caller sets on a new PageRequest
MaxRows == 2           \* most rows the data source holds for a statement
MaxColumnLen == 3      \* longest SortBy text a caller puts into a PageRequest
MaxArgs == 2           \* most arguments of a mapper method call
MaxBatch == 3          \* most statements queued on a BatchExecutor
MaxRegistryOps == 3    \* most RegisterManager and RemoveManager calls

\* ------------------------------------------------------- plugin fixtures
\* Three plugin objects: 1 and 3 have the same dynamic type and the same
\* GetOrder(), 2 is of another type and comes first.
PluginIds == {1, 2, 3}

\* the plugins the dispatches are run with
DispatchIds == {1, 2}

\* the dispatches that run concurrently through one manager
Dispatches == {1, 2}

\* the goroutines that add and remove plugins concurrently (goroutine g adds
\* plugin g), and the one that reads the registry
Writers == {1, 2}
Readers == {3}
Goroutines == Writers \cup Readers

\* the PaginationPlugin object a session is built with
PaginationPlugin == 4

GetOrder(p) == CASE p = 2 -> 5 [] p = PaginationPlugin -> 100 [] OTHER -> 10

TypeOf(p) == CASE p = 2 -> "B" [] p = PaginationPlugin -> "P" [] OTHER -> "A"

PluginTypes == {TypeOf(p) : p \in PluginIds}

\* ------------------------------------------------------------- sequences
Indices(s) == 1..Len(s)

\* the indices n, n-1, .., 1
RECURSIVE Downto(_)
Downto(n) == IF n = 0 THEN <<>> ELSE <<n>> \o Downto(n - 1)

RECURSIVE SelectIdx(_, _)
SelectIdx(idxs, fns) ==
    IF idxs = <<>> THEN <<>>
    ELSE (IF fns[Head(idxs)] = "fail" THEN <<Head(idxs)>> ELSE <<>>)
         \o SelectIdx(Tail(idxs), fns)

RemoveAt(s, i) == SubSeq(s, 1, i - 1) \o SubSeq(s, i + 1, Len(s))

IsSortedByOrder(s) ==
    \A i \in Indices(s) : \A j \in Indices(s) :
        i < j => GetOrder(s[i]) <= GetOrder(s[j])

Perms(s) ==
    {[i \in Indices(s) |-> s[f[i]]] :
        f \in {g \in [Indices(s) -> Indices(s)] :
                 \A a \in Indices(s) : \A b \in Indices(s) : a # b => g[a] # g[b]}}

\* ------------------------------------------------------------ results
\* A (result, error) pair.  cause and rb are set only in the error that
\* Proceed builds from the original error and the rollback errors.
Res(v, e) == [val |-> v, err |-> e, cause |-> "nil", rb |-> <<>>]

NoResult == Res("none", "none")
TermOK == Res("termVal", "nil")
TermErr == Res("nil", "termErr")
ReflectErr == Res("nil", "reflectErr")
PluginOK == Res("pluginVal", "nil")
PluginErr == Res("nil", "pluginErr")
PluginBoth == Res("pluginVal", "pluginErr")
AlreadyCompleted == Res("nil", "plugin chain already completed")

\* fmt.Errorf("original error: %v, rollback errors: %v", err, rollbackErrors)
\* with a nil result
CombinedError(err, rollbackErrors) ==
    [val |-> "nil", err |-> "combined", cause |-> err, rb |-> rollbackErrors]

VARIABLES
    pmPlugins,      \* PluginManager.plugins
    pc,             \* "none": no chain; "idle": a chain, no Proceed running;
                    \* "running": chain.Proceed is on the stack (holds chain.mutex)
    chainPlugins,   \* PluginChain.plugins
    currentIndex,   \* PluginChain.currentIndex
    completed,      \* PluginChain.completed
    viaManager,     \* the chain was built by InterceptMethod
    hasProceed,     \* the Proceed handed over with the invocation was not nil
    rollbackFuncs,  \* InvocationContext.RollbackFuncs: "ok" or "fail" each
    stack,          \* the Intercept activations, outermost first
    lastResult,     \* what the last Proceed / InterceptMethod returned
    calls,          \* chain.Proceed calls made on this chain
    enterLog,       \* the chain positions whose Intercept was called, in call order
    enterIds,       \* the plugins whose Intercept was called, in call order
    procCalls,      \* per chain position: invocation.Proceed() calls made by it
    termCalls,      \* calls of the original Proceed (chain lifetime)
    callTerm,       \* calls of the original Proceed in the current/last call
    termFailed,     \* the terminal call returned an error in this call
    chainResult,    \* what proceedNext returned to Proceed in the current/last call
    rollbackLog,    \* callbacks run in the current/last call, in run order
    passThrough     \* every Intercept that has returned in the current/last call
                    \* called invocation.Proceed() once and returned its result

\* the goroutines that call the PluginManager concurrently
VARIABLES
    mutex,          \* PluginManager.mutex: its writer (0: none) and its readers
    gpc,            \* per goroutine: where it is in its PluginManager call
    gtmp,           \* per goroutine: the slice it has read (append's operand, the copy)
    addsDone,       \* per goroutine: AddPlugin calls that have returned
    removesDone,    \* RemovePlugin calls that have returned true
    observed,       \* what the reader's last GetPlugins returned
    reads           \* GetPlugins calls that have returned

concVars == <<mutex, gpc, gtmp, addsDone, removesDone, observed, reads>>

\* the record kept of the registrations made on the manager
VARIABLES
    regOrder,       \* the registered plugins, in the order they were added
    before,         \* GetPlugins before the last AddPlugin call
    lastAdded,      \* the plugin of the last AddPlugin call (0: none)
    lastOp          \* "none", "add", "remove", or "undo": the RemovePlugin
                    \* call for the plugin just added

regVars == <<regOrder, before, lastAdded, lastOp>>

\* the dispatches that run concurrently, each with its invocation context
VARIABLES
    ctx,            \* per context: its mutex, PluginStates and RollbackFuncs
    dpc,            \* per dispatch: where it is
    didx,           \* per dispatch: ExecuteRollback's loop index i (+1)
    ran,            \* per dispatch: who registered the callbacks its rollback ran
    seen,           \* per dispatch: the plugin states GetPluginState gave it
    failed          \* per dispatch: its interceptor returned an error

ctxVars == <<ctx, dpc, didx, ran, seen, failed>>

\* a session, the PageRequest object of its caller, and its last call
VARIABLES
    sClosed,        \* DefaultSqlSession.closed
    req,            \* the caller's PageRequest object: Page, Size, Offset
    sRes            \* the last call made: what it got, what it did, its outcome

sessVars == <<sClosed, req, sRes>>

\* a mapper proxy over a mock session, and the call its caller prepares
VARIABLES
    mp              \* the method called (name, return types), its arguments,
                    \* what the session is set to answer, and what invoke did

mapVars == <<mp>>

\* a BatchExecutor and its last ExecuteBatch call
VARIABLES
    statements,     \* BatchExecutor.statements, the queue
    batch           \* the last ExecuteBatch call: the queue it found, what it
                    \* did on the transaction, what it returned

batchVars == <<statements, batch>>

\* a PluginRegistry and the calls made on it
VARIABLES
    managers,       \* PluginRegistry.managers: name -> manager
    nameLog,        \* the RegisterManager and RemoveManager calls made so far
    nameRes         \* the last call and what it returned

nameVars == <<managers, nameLog, nameRes>>

\* one PluginChain used by two goroutines
VARIABLES
    sharedChain,    \* the chain: plugins, currentIndex, completed, mutex
    callerState     \* per goroutine: where it is in Proceed, the calls it has
                    \* made, what its last call returned

shareVars == <<sharedChain, callerState>>

\* the components added last, which the older ones leave alone
lateVars == <<batchVars, nameVars, shareVars>>

extVars == <<concVars, regVars, ctxVars, sessVars, mapVars, lateVars>>

vars == <<extVars, pmPlugins, pc, chainPlugins, currentIndex, completed, viaManager,
          hasProceed, rollbackFuncs, stack, lastResult, calls, enterLog,
          enterIds, procCalls, termCalls, callTerm, termFailed,
          chainResult, rollbackLog, passThrough>>

mgrVars == <<pmPlugins>>

chainVars == <<pc, chainPlugins, currentIndex, completed, viaManager,
               hasProceed, rollbackFuncs, stack, lastResult, calls, enterLog,
               enterIds, procCalls, termCalls, callTerm, termFailed,
               chainResult, rollbackLog, passThrough>>

\* what AddPlugin and RemovePlugin leave alone, what the goroutines of the
\* manager leave alone, and what the concurrent dispatches leave alone
mgrFrame == <<chainVars, concVars, ctxVars, sessVars, mapVars, lateVars>>
concFrame == <<chainVars, regVars, ctxVars, sessVars, mapVars, lateVars>>
ctxFrame == <<mgrVars, chainVars, concVars, regVars, sessVars, mapVars, lateVars>>
sessFrame == <<chainVars, concVars, regVars, ctxVars, mapVars, lateVars>>
mapFrame == <<mgrVars, chainVars, concVars, regVars, ctxVars, sessVars, lateVars>>
earlyVars == <<mgrVars, chainVars, concVars, regVars, ctxVars, sessVars, mapVars>>
batchFrame == <<earlyVars, nameVars, shareVars>>
nameFrame == <<earlyVars, batchVars, shareVars>>
shareFrame == <<earlyVars, batchVars, nameVars>>

\* no goroutine is inside a PluginManager call
InitConc ==
    /\ mutex = [writer |-> 0, readers |-> {}]
    /\ gpc = [g \in Goroutines |-> "idle"]
    /\ gtmp = [g \in Goroutines |-> <<>>]
    /\ addsDone = [g \in Writers |-> 0]
    /\ removesDone = 0
    /\ observed = <<>>
    /\ reads = 0

\* NewInvocationContext: no plugin state, no rollback callback
NewInvocationContext ==
    [mutex |-> [writer |-> 0, readers |-> {}], states |-> 0, funcs |-> <<>>]

\* no dispatch has started
InitCtx ==
    /\ ctx = [c \in Dispatches |-> NewInvocationContext]
    /\ dpc = [d \in Dispatches |-> "none"]
    /\ didx = [d \in Dispatches |-> 0]
    /\ ran = [d \in Dispatches |-> {}]
    /\ seen = [d \in Dispatches |-> {}]
    /\ failed = [d \in Dispatches |-> FALSE]

\* invocation.Properties without and with the "sql" key
EmptyProperties == [present |-> FALSE, sql |-> <<>>]
SqlProperties(sql) == [present |-> TRUE, sql |-> sql]

\* the zero PageRequest
NoRequest == [Page |-> 0, Size |-> 0, Offset |-> 0, SortBy |-> <<>>, SortDir |-> ""]

\* no call was made since the caller last prepared one
\* the zero PageResult (Data left out)
NoPage ==
    [Total |-> 0, Page |-> 0, Size |-> 0, TotalPages |-> 0,
     HasNext |-> FALSE, HasPrev |-> FALSE]

NoCall ==
    [op |-> "none", id |-> "none", kind |-> "nil", err |-> "nil",
     plugins |-> <<>>, entered |-> <<>>, recv |-> EmptyProperties,
     extracted |-> FALSE, execSQL |-> <<>>, pagedSQL |-> <<>>, paged |-> FALSE,
     after |-> EmptyProperties, proceeds |-> 0, val |-> "nil", rows |-> 0,
     page |-> NoPage, arg |-> NoRequest, down |-> "nil"]

\* an open session, and a zero PageRequest in the caller's hands
InitSession ==
    /\ sClosed = FALSE
    /\ req = NoRequest
    /\ sRes = NoCall

\* the parameter invoke builds: kind "nil" (none), "value" (v is the
\* argument) or "map" (m maps the keys to the arguments)
NilParameter == [kind |-> "nil", v |-> "nil", m |-> <<>>]

\* invoke has not run
NoInvoke ==
    [done |-> FALSE, panic |-> FALSE, op |-> "none", parameter |-> NilParameter,
     err |-> "nil", returns |-> <<>>]

\* TestMapper.GetUser over a MockSqlSession with nothing set
InitMapper ==
    mp = [name |-> <<"Get", "User">>, outs |-> <<"interface", "error">>,
          args |-> <<>>, one |-> "nil", err |-> "nil", ret |-> NoInvoke]

\* no call was made on the registry
NoNameCall == [op |-> "none", name |-> "none", manager |-> "nil", ok |-> FALSE]

\* NewPluginRegistry: an empty map
InitRegistry ==
    /\ managers = <<>>
    /\ nameLog = <<>>
    /\ nameRes = NoNameCall

\* the goroutines that call Proceed on the same chain
Callers == {1, 2}

\* no chain was made yet
NoSharedChain ==
    [made |-> FALSE, plugins |-> <<>>, currentIndex |-> 0, completed |-> FALSE,
     mutex |-> [writer |-> 0, readers |-> {}]]

InitShared ==
    /\ sharedChain = NoSharedChain
    /\ callerState = [t \in Callers |-> [pc |-> "idle", calls |-> 0, ret |-> NoResult]]

\* ExecuteBatch has not run
NoBatch ==
    [called |-> FALSE, before |-> <<>>, tx |-> <<>>, results |-> <<>>,
     err |-> "nil"]

\* NewBatchExecutor: an empty queue
InitBatch ==
    /\ statements = <<>>
    /\ batch = NoBatch

\* nothing was registered yet
InitReg ==
    /\ regOrder = <<>>
    /\ before = <<>>
    /\ lastAdded = 0
    /\ lastOp = "none"

\* NewPluginManager: an empty registry, and no chain yet
Init ==
    /\ pmPlugins = <<>>
    /\ pc = "none"
    /\ chainPlugins = <<>>
    /\ currentIndex = 0
    /\ completed = FALSE
    /\ viaManager = FALSE
    /\ hasProceed = TRUE
    /\ rollbackFuncs = <<>>
    /\ stack = <<>>
    /\ lastResult = NoResult
    /\ calls = 0
    /\ enterLog = <<>>
    /\ enterIds = <<>>
    /\ procCalls = <<>>
    /\ termCalls = 0
    /\ callTerm = 0
    /\ termFailed = FALSE
    /\ chainResult = NoResult
    /\ rollbackLog = <<>>
    /\ passThrough = TRUE
    /\ InitConc
    /\ InitReg
    /\ InitCtx
    /\ InitSession
    /\ InitMapper
    /\ InitBatch
    /\ InitRegistry
    /\ InitShared

\* ------------------------------------------------------ PluginManager
\* faulty variant: AddPlugin without the sort
SortSliceNone(s) == {s}

\* sort.Slice(pm.plugins, less by GetOrder): the plugins in ascending order;
\* sort.Slice does not promise to keep equal elements in their order
SortSlice(s) == {t \in Perms(s) : IsSortedByOrder(t)}

\* the position RemovePlugin removes: the first plugin of that type (0: none)
FirstOfType(s, t) ==
    IF \E i \in Indices(s) : TypeOf(s[i]) = t
    THEN CHOOSE i \in Indices(s) :
            /\ TypeOf(s[i]) = t
            /\ \A j \in 1..(i - 1) : TypeOf(s[j]) # t
    ELSE 0

\* GetPlugins: a copy of the registry
GetPlugins == pmPlugins

AddPlugin(p) ==
    /\ Len(pmPlugins) < MaxPlugins
    /\ pmPlugins' \in SortSlice(Append(pmPlugins, p))
    /\ UNCHANGED mgrFrame

RemovePlugin(t) ==
    /\ FirstOfType(pmPlugins, t) # 0
    /\ pmPlugins' = RemoveAt(pmPlugins, FirstOfType(pmPlugins, t))
    /\ UNCHANGED mgrFrame

\* ---------------------------------------------------- InvocationContext
\* faulty variant: the callbacks run in registration order
ExecuteRollbackForward(fns) == [i \in Indices(fns) |-> i]

\* ExecuteRollback: the callbacks in the order they are run
ExecuteRollbackOrder(fns) == Downto(Len(fns))

\* faulty variant: errors = []error{err} instead of append: only the last error is kept
ExecuteRollbackKeepsLast(fns) ==
    LET errs == SelectIdx(ExecuteRollbackOrder(fns), fns)
    IN  IF errs = <<>> THEN <<>> ELSE <<errs[Len(errs)]>>

\* ExecuteRollback: the errors it returns (the failing callbacks, in run order)
ExecuteRollback(fns) == SelectIdx(ExecuteRollbackOrder(fns), fns)

\* ---------------------------------------------------------- PluginChain
\* faulty variant: the completed check is missing
RejectsNever(comp) == FALSE

\* Proceed: if chain.completed, the call is rejected
Rejects(comp) == comp

\* proceedNext: all plugins have run, the target is next
AtTarget(idx, plugs) == idx >= Len(plugs)

\* faulty variant: the chain works on the registry's own slice (no copy in
\* GetPlugins and NewPluginChain), so it sees what the registry holds now
PluginAtShared(plugs, i) ==
    IF i <= Len(pmPlugins) THEN pmPlugins[i] ELSE plugs[i]

\* proceedNext: plugin := chain.plugins[chain.currentIndex], read from the
\* copy NewPluginChain made of the copy GetPlugins made
PluginAt(plugs, i) == plugs[i]

\* faulty variant: the cursor is advanced by two
NextIndexSkip(idx) == idx + 2

\* faulty variant: the cursor is not advanced
NextIndexStuck(idx) == idx

\* proceedNext: chain.currentIndex++
NextIndex(idx) == idx + 1

\* invokeTarget: the original Proceed if there is one, else the reflective
\* call of the target's method (which can fail before the method is run)
InvokeTarget(hp) ==
    IF hp THEN {TermOK, TermErr}
    ELSE {ReflectErr, Res("targetVal", "nil"), Res("nil", "targetErr")}

\* faulty variant: the rollback is run on every path
RunsRollbackAlways(r) == TRUE

\* faulty variant: the rollback is run only for the terminal call's own error
RunsRollbackTermOnly(r) == r.err = "termErr"

\* Proceed, if err != nil: ExecuteRollback is run
RunsRollback(r) == r.err # "nil"

\* Proceed: the callbacks it runs for proceedNext's result r
RollbackRun(r, fns) == IF RunsRollback(r) THEN ExecuteRollbackOrder(fns) ELSE <<>>

\* faulty variant: the wrapper runs the rollback for a nested error too
WrapperRollbackOnError(r, fns) == RollbackRun(r, fns)

\* the invocation.Proceed wrapper Proceed installs: it returns proceedNext's
\* result r as it is and runs no callback
WrapperRollback(r, fns) == <<>>

\* faulty variant: every error is wrapped, rollback errors or not
ProceedResultWraps(r, fns) ==
    IF RunsRollback(r) THEN CombinedError(r.err, ExecuteRollback(fns)) ELSE r

\* Proceed: what it returns for proceedNext's result r
ProceedResult(r, fns) ==
    IF RunsRollback(r) /\ Len(ExecuteRollback(fns)) > 0
    THEN CombinedError(r.err, ExecuteRollback(fns))
    ELSE r

\* Proceed: the completed flag when it returns
CompletedAfter(r, fns, was) ==
    IF RunsRollback(r) /\ Len(ExecuteRollback(fns)) > 0 THEN was ELSE TRUE

\* Proceed, after proceedNext has returned r (the error check, the rollback,
\* the completed flag, the return)
ProceedTail(r, fns, was) ==
    /\ chainResult' = r
    /\ rollbackLog' = RollbackRun(r, fns)
    /\ lastResult' = ProceedResult(r, fns)
    /\ completed' = CompletedAfter(r, fns, was)
    /\ pc' = "idle"
    /\ stack' = <<>>

Frame(i) == [idx |-> i, last |-> NoResult]

\* Proceed from its first line up to the first Intercept call (or, with no
\* plugin left, to its return), on a chain with the given fields and with
\* the invocation described by hp (its Proceed is not nil) and fns (the
\* callbacks of its context)
ProceedFrom(plugs, idx, comp, hp, fns, log, ids, tc) ==
    /\ chainPlugins' = plugs
    /\ hasProceed' = hp
    /\ rollbackFuncs' = fns
    /\ passThrough' = TRUE
    /\ IF Rejects(comp)
       THEN /\ lastResult' = AlreadyCompleted
            /\ pc' = "idle"
            /\ stack' = <<>>
            /\ completed' = comp
            /\ currentIndex' = idx
            /\ enterLog' = log
            /\ enterIds' = ids
            /\ termCalls' = tc
            /\ callTerm' = 0
            /\ termFailed' = FALSE
            /\ chainResult' = NoResult
            /\ rollbackLog' = <<>>
       ELSE IF ~AtTarget(idx, plugs)
       THEN /\ pc' = "running"
            /\ stack' = <<Frame(idx + 1)>>
            /\ currentIndex' = NextIndex(idx)
            /\ enterLog' = Append(log, idx + 1)
            /\ enterIds' = Append(ids, PluginAt(plugs, idx + 1))
            /\ completed' = comp
            /\ lastResult' = NoResult
            /\ termCalls' = tc
            /\ callTerm' = 0
            /\ termFailed' = FALSE
            /\ chainResult' = NoResult
            /\ rollbackLog' = <<>>
       ELSE \E r \in InvokeTarget(hp) :
            /\ ProceedTail(r, fns, comp)
            /\ currentIndex' = idx
            /\ enterLog' = log
            /\ enterIds' = ids
            /\ termCalls' = (IF hp THEN tc + 1 ELSE tc)
            /\ callTerm' = 1
            /\ termFailed' = (r.err # "nil")

\* the plugin lists handed to NewPluginChain directly: one of each length,
\* <<>>, <<1>>, <<1, 2>>, ... (not in GetOrder order)
PluginLists == {[i \in 1..n |-> IF i % 2 = 1 THEN 1 ELSE 2] : n \in 0..MaxPlugins}

\* NewPluginChain(plugins, target) called directly
NewPluginChain(plugs) ==
    /\ pc \in {"none", "idle"}
    /\ pc' = "idle"
    /\ chainPlugins' = plugs
    /\ currentIndex' = 0
    /\ completed' = FALSE
    /\ viaManager' = FALSE
    /\ hasProceed' = TRUE
    /\ rollbackFuncs' = <<>>
    /\ stack' = <<>>
    /\ lastResult' = NoResult
    /\ calls' = 0
    /\ enterLog' = <<>>
    /\ enterIds' = <<>>
    /\ procCalls' = [i \in Indices(plugs) |-> 0]
    /\ termCalls' = 0
    /\ callTerm' = 0
    /\ termFailed' = FALSE
    /\ chainResult' = NoResult
    /\ rollbackLog' = <<>>
    /\ passThrough' = TRUE
    /\ UNCHANGED <<mgrVars, extVars>>

\* chain.Proceed(invocation) called on the existing chain, with a new
\* Invocation (whose Proceed may be nil) or with the one handed over before
Proceed(fresh, hp) ==
    /\ pc = "idle"
    /\ calls < MaxChainCalls
    /\ calls' = calls + 1
    /\ ProceedFrom(chainPlugins, currentIndex, completed,
                   IF fresh THEN hp ELSE hasProceed,
                   IF fresh THEN <<>> ELSE rollbackFuncs,
                   enterLog, enterIds, termCalls)
    /\ UNCHANGED <<viaManager, procCalls>>
    /\ UNCHANGED <<mgrVars, extVars>>

\* PluginManager.InterceptMethod with an empty registry: proceed() itself
InterceptMethodDirect ==
    /\ pc \in {"none", "idle"}
    /\ Len(GetPlugins) = 0
    /\ \E r \in InvokeTarget(TRUE) :
        /\ lastResult' = r
        /\ termFailed' = (r.err # "nil")
    /\ pc' = "none"
    /\ chainPlugins' = <<>>
    /\ currentIndex' = 0
    /\ completed' = FALSE
    /\ viaManager' = TRUE
    /\ hasProceed' = TRUE
    /\ rollbackFuncs' = <<>>
    /\ stack' = <<>>
    /\ calls' = 0
    /\ enterLog' = <<>>
    /\ enterIds' = <<>>
    /\ procCalls' = <<>>
    /\ termCalls' = 1
    /\ callTerm' = 1
    /\ chainResult' = NoResult
    /\ rollbackLog' = <<>>
    /\ passThrough' = TRUE
    /\ UNCHANGED <<mgrVars, extVars>>

\* PluginManager.InterceptMethod with plugins: snapshot, new chain, new
\* invocation and context, chain.Proceed
InterceptMethodChain ==
    /\ pc \in {"none", "idle"}
    /\ Len(GetPlugins) > 0
    /\ viaManager' = TRUE
    /\ calls' = 1
    /\ procCalls' = [i \in Indices(GetPlugins) |-> 0]
    /\ ProceedFrom(GetPlugins, 0, FALSE, TRUE, <<>>, <<>>, <<>>, 0)
    /\ UNCHANGED <<mgrVars, extVars>>

Top == stack[Len(stack)]

\* an interceptor calls invocation.Proceed(): proceedNext enters the next plugin
ProceedNextPlugin ==
    /\ pc = "running"
    /\ procCalls[Top.idx] < MaxProceedCalls
    /\ ~AtTarget(currentIndex, chainPlugins)
    /\ procCalls' = [procCalls EXCEPT ![Top.idx] = @ + 1]
    /\ stack' = Append(stack, Frame(currentIndex + 1))
    /\ currentIndex' = NextIndex(currentIndex)
    /\ enterLog' = Append(enterLog, currentIndex + 1)
    /\ enterIds' = Append(enterIds, PluginAt(chainPlugins, currentIndex + 1))
    /\ UNCHANGED <<pc, chainPlugins, completed, viaManager, hasProceed,
                   rollbackFuncs, lastResult, calls, termCalls, callTerm,
                   termFailed, chainResult, rollbackLog, passThrough>>
    /\ UNCHANGED <<mgrVars, extVars>>

\* an interceptor calls invocation.Proceed(): proceedNext calls invokeTarget,
\* whose result goes back to the interceptor
ProceedNextTarget ==
    /\ pc = "running"
    /\ procCalls[Top.idx] < MaxProceedCalls
    /\ AtTarget(currentIndex, chainPlugins)
    /\ procCalls' = [procCalls EXCEPT ![Top.idx] = @ + 1]
    /\ \E r \in InvokeTarget(hasProceed) :
        /\ stack' = [stack EXCEPT ![Len(stack)].last = r]
        /\ termFailed' = (termFailed \/ r.err # "nil")
        /\ rollbackLog' = rollbackLog \o WrapperRollback(r, rollbackFuncs)
    /\ termCalls' = (IF hasProceed THEN termCalls + 1 ELSE termCalls)
    /\ callTerm' = callTerm + 1
    /\ UNCHANGED <<pc, chainPlugins, currentIndex, completed, viaManager,
                   hasProceed, rollbackFuncs, lastResult, calls, enterLog,
                   enterIds, chainResult, passThrough>>
    /\ UNCHANGED <<mgrVars, extVars>>

\* an interceptor calls invocation.Context.AddRollbackFunc
AddRollbackFunc(kind) ==
    /\ pc = "running"
    /\ Len(rollbackFuncs) < MaxRollback
    /\ rollbackFuncs' = Append(rollbackFuncs, kind)
    /\ UNCHANGED <<pc, chainPlugins, currentIndex, completed, viaManager,
                   hasProceed, stack, lastResult, calls, enterLog, enterIds, procCalls,
                   termCalls, callTerm, termFailed, chainResult, rollbackLog,
                   passThrough>>
    /\ UNCHANGED <<mgrVars, extVars>>

\* what an Intercept may return: the result of its last invocation.Proceed(),
\* or a result or an error of its own
ReturnChoices(f) ==
    (IF f.last # NoResult THEN {f.last} ELSE {}) \cup {PluginOK, PluginErr, PluginBoth}

\* the Intercept of frame f returns r: it is a pass-through if it has called
\* invocation.Proceed() once and r is what that call returned
StillPassThrough(f, r) == passThrough /\ procCalls[f.idx] = 1 /\ r = f.last

\* an inner Intercept returns to the interceptor that called invocation.Proceed()
InterceptReturnInner ==
    /\ pc = "running"
    /\ Len(stack) > 1
    /\ \E r \in ReturnChoices(Top) :
        /\ stack' = [SubSeq(stack, 1, Len(stack) - 1) EXCEPT ![Len(stack) - 1].last = r]
        /\ rollbackLog' = rollbackLog \o WrapperRollback(r, rollbackFuncs)
        /\ passThrough' = StillPassThrough(Top, r)
    /\ UNCHANGED <<pc, chainPlugins, currentIndex, completed, viaManager,
                   hasProceed, rollbackFuncs, lastResult, calls, enterLog,
                   enterIds, procCalls, termCalls, callTerm, termFailed, chainResult>>
    /\ UNCHANGED <<mgrVars, extVars>>

\* the outermost Intercept returns to Proceed, which finishes
InterceptReturnOuter ==
    /\ pc = "running"
    /\ Len(stack) = 1
    /\ \E r \in ReturnChoices(Top) :
        /\ ProceedTail(r, rollbackFuncs, completed)
        /\ passThrough' = StillPassThrough(Top, r)
    /\ UNCHANGED <<chainPlugins, currentIndex, viaManager, hasProceed,
                   rollbackFuncs, calls, enterLog, enterIds, procCalls, termCalls,
                   callTerm, termFailed>>
    /\ UNCHANGED <<mgrVars, extVars>>

\* what the interceptors of a running chain do
InterceptorStep ==
    \/ ProceedNextPlugin
    \/ ProceedNextTarget
    \/ \E kind \in {"ok", "fail"} : AddRollbackFunc(kind)
    \/ InterceptReturnInner
    \/ InterceptReturnOuter

\* a chain used directly: NewPluginChain, then Proceed calls
NextChain ==
    \/ \E plugs \in PluginLists : NewPluginChain(plugs)
    \/ \E fresh \in BOOLEAN : \E hp \in BOOLEAN : Proceed(fresh, hp)
    \/ InterceptorStep

SpecChain == Init /\ [][NextChain]_vars

\* the manager and the dispatches made through it
Next ==
    \/ \E p \in DispatchIds : AddPlugin(p) /\ UNCHANGED regVars
    \/ \E t \in PluginTypes : RemovePlugin(t) /\ UNCHANGED regVars
    \/ InterceptMethodDirect
    \/ InterceptMethodChain
    \/ InterceptorStep

Spec == Init /\ [][Next]_vars

\* ------------------------------------------- the manager's registrations
\* the position of the first x in s
FirstIndexOf(s, x) == CHOOSE i \in Indices(s) : s[i] = x /\ \A j \in 1..(i - 1) : s[j] # x

\* AddPlugin(p), and the record of it
Register(p) ==
    /\ AddPlugin(p)
    /\ regOrder' = Append(regOrder, p)
    /\ before' = GetPlugins
    /\ lastAdded' = p
    /\ lastOp' = "add"

\* RemovePlugin(t), and the record of it
Unregister(t) ==
    /\ RemovePlugin(t)
    /\ regOrder' = RemoveAt(regOrder,
                      FirstIndexOf(regOrder, pmPlugins[FirstOfType(pmPlugins, t)]))
    /\ lastOp' = IF lastOp = "add" /\ t = TypeOf(lastAdded) THEN "undo" ELSE "remove"
    /\ UNCHANGED <<before, lastAdded>>

\* a GetPlugins call between two other calls: the caller gets the copy
Snapshot ==
    /\ reads < MaxReads
    /\ observed' = GetPlugins
    /\ reads' = reads + 1
    /\ UNCHANGED <<mutex, gpc, gtmp, addsDone, removesDone>>
    /\ UNCHANGED <<mgrVars, concFrame>>

\* the manager alone, with any of the plugins
NextMgr ==
    \/ \E p \in PluginIds : Register(p)
    \/ \E t \in PluginTypes : Unregister(t)
    \/ Snapshot

SpecMgr == Init /\ [][NextMgr]_vars

\* ------------------------------------- concurrent PluginManager callers
\* faulty variant: AddPlugin and RemovePlugin without pm.mutex.Lock()
CanLockAlways(m) == TRUE

\* pm.mutex.Lock(): granted when no writer and no reader holds the mutex
CanLock(m) == m.writer = 0 /\ m.readers = {}

\* faulty variant: GetPlugins without pm.mutex.RLock()
CanRLockAlways(m) == TRUE

\* pm.mutex.RLock(): granted when no writer holds the mutex
CanRLock(m) == m.writer = 0

\* GetPluginCount: len(pm.plugins)
GetPluginCount == Len(pmPlugins)

\* AddPlugin(plugin g) in goroutine g: pm.mutex.Lock()
AddLock(g) ==
    /\ gpc[g] = "idle"
    /\ addsDone[g] < MaxAddCalls
    /\ CanLock(mutex)
    /\ mutex' = [mutex EXCEPT !.writer = g]
    /\ gpc' = [gpc EXCEPT ![g] = "addLocked"]
    /\ UNCHANGED <<pmPlugins, gtmp, addsDone, removesDone, observed, reads>>
    /\ UNCHANGED concFrame

\* AddPlugin: append reads pm.plugins
AddRead(g) ==
    /\ gpc[g] = "addLocked"
    /\ gtmp' = [gtmp EXCEPT ![g] = pmPlugins]
    /\ gpc' = [gpc EXCEPT ![g] = "addRead"]
    /\ UNCHANGED <<pmPlugins, mutex, addsDone, removesDone, observed, reads>>
    /\ UNCHANGED concFrame

\* AddPlugin: pm.plugins = append(.., plugin)
AddWrite(g) ==
    /\ gpc[g] = "addRead"
    /\ pmPlugins' = Append(gtmp[g], g)
    /\ gtmp' = [gtmp EXCEPT ![g] = <<>>]
    /\ gpc' = [gpc EXCEPT ![g] = "addWritten"]
    /\ UNCHANGED <<mutex, addsDone, removesDone, observed, reads>>
    /\ UNCHANGED concFrame

\* AddPlugin: sort.Slice(pm.plugins, ..)
AddSort(g) ==
    /\ gpc[g] = "addWritten"
    /\ pmPlugins' \in SortSlice(pmPlugins)
    /\ gpc' = [gpc EXCEPT ![g] = "addSorted"]
    /\ UNCHANGED <<mutex, gtmp, addsDone, removesDone, observed, reads>>
    /\ UNCHANGED concFrame

\* AddPlugin: the deferred pm.mutex.Unlock(), and the return
AddUnlock(g) ==
    /\ gpc[g] = "addSorted"
    /\ mutex' = [mutex EXCEPT !.writer = 0]
    /\ gpc' = [gpc EXCEPT ![g] = "idle"]
    /\ addsDone' = [addsDone EXCEPT ![g] = @ + 1]
    /\ UNCHANGED <<pmPlugins, gtmp, removesDone, observed, reads>>
    /\ UNCHANGED concFrame

\* RemovePlugin(type of plugin g) in goroutine g: pm.mutex.Lock()
RemoveLock(g) ==
    /\ gpc[g] = "idle"
    /\ removesDone < MaxRemoveCalls
    /\ CanLock(mutex)
    /\ mutex' = [mutex EXCEPT !.writer = g]
    /\ gpc' = [gpc EXCEPT ![g] = "remLocked"]
    /\ UNCHANGED <<pmPlugins, gtmp, addsDone, removesDone, observed, reads>>
    /\ UNCHANGED concFrame

\* RemovePlugin: the loop, which removes the first plugin of the type
RemoveScan(g) ==
    /\ gpc[g] = "remLocked"
    /\ IF FirstOfType(pmPlugins, TypeOf(g)) # 0
       THEN /\ pmPlugins' = RemoveAt(pmPlugins, FirstOfType(pmPlugins, TypeOf(g)))
            /\ removesDone' = removesDone + 1
       ELSE UNCHANGED <<pmPlugins, removesDone>>
    /\ gpc' = [gpc EXCEPT ![g] = "remScanned"]
    /\ UNCHANGED <<mutex, gtmp, addsDone, observed, reads>>
    /\ UNCHANGED concFrame

\* RemovePlugin: the deferred pm.mutex.Unlock(), and the return
RemoveUnlock(g) ==
    /\ gpc[g] = "remScanned"
    /\ mutex' = [mutex EXCEPT !.writer = 0]
    /\ gpc' = [gpc EXCEPT ![g] = "idle"]
    /\ UNCHANGED <<pmPlugins, gtmp, addsDone, removesDone, observed, reads>>
    /\ UNCHANGED concFrame

\* GetPlugins in goroutine g: pm.mutex.RLock()
GetRLock(g) ==
    /\ gpc[g] = "idle"
    /\ reads < MaxReads
    /\ CanRLock(mutex)
    /\ mutex' = [mutex EXCEPT !.readers = @ \cup {g}]
    /\ gpc' = [gpc EXCEPT ![g] = "getLocked"]
    /\ UNCHANGED <<pmPlugins, gtmp, addsDone, removesDone, observed, reads>>
    /\ UNCHANGED concFrame

\* GetPlugins: copy(pluginsCopy, pm.plugins)
GetCopy(g) ==
    /\ gpc[g] = "getLocked"
    /\ gtmp' = [gtmp EXCEPT ![g] = pmPlugins]
    /\ gpc' = [gpc EXCEPT ![g] = "getCopied"]
    /\ UNCHANGED <<pmPlugins, mutex, addsDone, removesDone, observed, reads>>
    /\ UNCHANGED concFrame

\* GetPlugins: the deferred pm.mutex.RUnlock(), and the return of the copy
GetRUnlock(g) ==
    /\ gpc[g] = "getCopied"
    /\ mutex' = [mutex EXCEPT !.readers = @ \ {g}]
    /\ observed' = gtmp[g]
    /\ reads' = reads + 1
    /\ gtmp' = [gtmp EXCEPT ![g] = <<>>]
    /\ gpc' = [gpc EXCEPT ![g] = "idle"]
    /\ UNCHANGED <<pmPlugins, addsDone, removesDone>>
    /\ UNCHANGED concFrame

\* goroutines calling AddPlugin, RemovePlugin and GetPlugins on one manager
NextConc ==
    \/ \E g \in Writers : AddLock(g)
    \/ \E g \in Writers : AddRead(g)
    \/ \E g \in Writers : AddWrite(g)
    \/ \E g \in Writers : AddSort(g)
    \/ \E g \in Writers : AddUnlock(g)
    \/ \E g \in Writers : RemoveLock(g)
    \/ \E g \in Writers : RemoveScan(g)
    \/ \E g \in Writers : RemoveUnlock(g)
    \/ \E g \in Readers : GetRLock(g)
    \/ \E g \in Readers : GetCopy(g)
    \/ \E g \in Readers : GetRUnlock(g)

SpecConc == Init /\ [][NextConc]_vars

\* ------------------------------------------------- concurrent dispatches
\* Two dispatches through one manager, each in its own goroutine.  A dispatch
\* is one InterceptMethod call with one interceptor; the interceptor and the
\* rollback callbacks use the context API of the invocation they are given.

\* faulty variant: every invocation gets the same context
ContextOfShared(d) == 1

\* InterceptMethod: Context: NewInvocationContext(), one for each call
ContextOf(d) == d

\* what a rollback callback does: nothing with the context, or a call of the
\* context API of its invocation
CallbackKinds == {"plain", "ctx"}

\* the dispatch is in user code that may call the context API: in Intercept,
\* or in a rollback callback that uses the context
InUserCode(d) ==
    \/ dpc[d] = "intercept"
    \/ /\ dpc[d] = "rollback"
       /\ didx[d] > 0
       /\ ctx[ContextOf(d)].funcs[didx[d]].kind = "ctx"

\* the context API call returns: to Intercept, or to ExecuteRollback's loop
\* when it was the body of a callback
AfterApi(d) ==
    /\ didx' = [didx EXCEPT ![d] = IF dpc[d] = "rollback" THEN @ - 1 ELSE @]
    /\ ran' = [ran EXCEPT ![d] = IF dpc[d] = "rollback"
                                  THEN @ \cup {ctx[ContextOf(d)].funcs[didx[d]].owner}
                                  ELSE @]

\* InterceptMethod up to the call of the interceptor
DispatchStart(d) ==
    /\ dpc[d] = "none"
    /\ ctx' = [ctx EXCEPT ![ContextOf(d)] = NewInvocationContext]
    /\ dpc' = [dpc EXCEPT ![d] = "intercept"]
    /\ UNCHANGED <<didx, ran, seen, failed>>
    /\ UNCHANGED ctxFrame

\* ctx.SetPluginState(name, state): the state is the dispatch's own
SetPluginState(d) ==
    /\ InUserCode(d)
    /\ CanLock(ctx[ContextOf(d)].mutex)
    /\ ctx' = [ctx EXCEPT ![ContextOf(d)].states = d]
    /\ AfterApi(d)
    /\ UNCHANGED <<dpc, seen, failed>>
    /\ UNCHANGED ctxFrame

\* ctx.GetPluginState(name)
GetPluginState(d) ==
    /\ InUserCode(d)
    /\ CanRLock(ctx[ContextOf(d)].mutex)
    /\ ctx[ContextOf(d)].states # 0
    /\ seen' = [seen EXCEPT ![d] = @ \cup {ctx[ContextOf(d)].states}]
    /\ AfterApi(d)
    /\ UNCHANGED <<ctx, dpc, failed>>
    /\ UNCHANGED ctxFrame

\* ctx.AddRollbackFunc(f), f a callback of the given kind
AddRollback(d, kind) ==
    /\ InUserCode(d)
    /\ CanLock(ctx[ContextOf(d)].mutex)
    /\ Len(ctx[ContextOf(d)].funcs) < MaxRollback
    /\ ctx' = [ctx EXCEPT ![ContextOf(d)].funcs =
                   Append(@, [owner |-> d, kind |-> kind])]
    /\ AfterApi(d)
    /\ UNCHANGED <<dpc, seen, failed>>
    /\ UNCHANGED ctxFrame

\* the interceptor returns without error: Proceed returns
DispatchOK(d) ==
    /\ dpc[d] = "intercept"
    /\ dpc' = [dpc EXCEPT ![d] = "returned"]
    /\ UNCHANGED <<ctx, didx, ran, seen, failed>>
    /\ UNCHANGED ctxFrame

\* the interceptor returns an error: Proceed calls ExecuteRollback, which
\* takes ctx.mutex.Lock() and starts its loop at the last callback
DispatchErr(d) ==
    /\ dpc[d] = "intercept"
    /\ CanLock(ctx[ContextOf(d)].mutex)
    /\ ctx' = [ctx EXCEPT ![ContextOf(d)].mutex.writer = d]
    /\ didx' = [didx EXCEPT ![d] = Len(ctx[ContextOf(d)].funcs)]
    /\ failed' = [failed EXCEPT ![d] = TRUE]
    /\ dpc' = [dpc EXCEPT ![d] = "rollback"]
    /\ UNCHANGED <<ran, seen>>
    /\ UNCHANGED ctxFrame

\* ExecuteRollback: a callback that does not use the context runs and returns
RollbackPlain(d) ==
    /\ dpc[d] = "rollback"
    /\ didx[d] > 0
    /\ ctx[ContextOf(d)].funcs[didx[d]].kind = "plain"
    /\ AfterApi(d)
    /\ UNCHANGED <<ctx, dpc, seen, failed>>
    /\ UNCHANGED ctxFrame

\* ExecuteRollback: the loop is over, the deferred ctx.mutex.Unlock(), and
\* Proceed returns the error
RollbackEnd(d) ==
    /\ dpc[d] = "rollback"
    /\ didx[d] = 0
    /\ ctx' = [ctx EXCEPT ![ContextOf(d)].mutex.writer = 0]
    /\ dpc' = [dpc EXCEPT ![d] = "returned"]
    /\ UNCHANGED <<didx, ran, seen, failed>>
    /\ UNCHANGED ctxFrame

NextCtx ==
    \/ \E d \in Dispatches : DispatchStart(d)
    \/ \E d \in Dispatches : SetPluginState(d)
    \/ \E d \in Dispatches : GetPluginState(d)
    \/ \E d \in Dispatches : \E kind \in CallbackKinds : AddRollback(d, kind)
    \/ \E d \in Dispatches : DispatchOK(d)
    \/ \E d \in Dispatches : DispatchErr(d)
    \/ \E d \in Dispatches : RollbackPlain(d)
    \/ \E d \in Dispatches : RollbackEnd(d)

SpecCtx == Init /\ [][NextCtx]_vars

\* ---------------------------------------------------- PaginationPlugin
\* SQL text is a sequence of tokens; "" is the empty sequence.

\* validatePageRequest: the largest Size and the largest Page accepted
SizeLimit == 1000
PageLimit == 1000000

\* faulty variant: no upper limits on Size and Page
validatePageRequestNoLimit(r) == r.Page > 0 /\ r.Size > 0

validatePageRequest(r) ==
    /\ r.Page > 0
    /\ r.Size > 0 /\ r.Size <= SizeLimit
    /\ r.Page <= PageLimit

\* how the caller hands over its paging request: not at all, as the
\* *PageRequest itself, or as a struct value with Page and Size fields
ArgKinds == {"nil", "ptr", "val"}

\* extractPageRequest(args): whether a request was found, the request the
\* plugin works with, and the caller's object after the call (a *PageRequest
\* gets its Offset written, and only if the Offset was 0)
extractPageRequest(kind, r) ==
    CASE kind = "ptr" ->
            IF ~validatePageRequest(r)
            THEN [found |-> FALSE, req |-> NoRequest, obj |-> r]
            ELSE LET r2 == [r EXCEPT !.Offset =
                               IF r.Offset = 0 /\ r.Page > 0
                               THEN (r.Page - 1) * r.Size ELSE r.Offset]
                 IN  [found |-> TRUE, req |-> r2, obj |-> r2]
      [] kind = "val" ->
            LET n == [NoRequest EXCEPT !.Page = r.Page, !.Size = r.Size,
                                       !.Offset = (r.Page - 1) * r.Size]
            IN  IF validatePageRequest(n)
                THEN [found |-> TRUE, req |-> n, obj |-> r]
                ELSE [found |-> FALSE, req |-> NoRequest, obj |-> r]
      [] OTHER -> [found |-> FALSE, req |-> NoRequest, obj |-> r]

\* getOriginalSQL: Properties["sql"], or "" when the key is absent
getOriginalSQL(props) == IF props.present THEN props.sql ELSE <<>>

\* the characters of a SortBy text, by the classes of the column pattern:
\* a lower-case and an upper-case letter, a digit, the underscore, the dot,
\* and a character outside [a-zA-Z0-9_.]
Letters == {"a", "Z"}
Digits == {"1"}
ColumnChars == Letters \cup Digits \cup {"_", ".", ";"}

\* [a-zA-Z_][a-zA-Z0-9_]* matches the whole of s
IsIdentifier(s) ==
    /\ Len(s) >= 1
    /\ s[1] \in Letters \cup {"_"}
    /\ \A i \in 2..Len(s) : s[i] \in Letters \cup Digits \cup {"_"}

\* faulty variant: the pattern is not anchored at the end of the text
isValidColumnNameUnanchored(columnName) ==
    \E k \in 1..Len(columnName) : IsIdentifier(SubSeq(columnName, 1, k))

\* isValidColumnName: ^[a-zA-Z_][a-zA-Z0-9_]*(\.[a-zA-Z_][a-zA-Z0-9_]*)?$
isValidColumnName(columnName) ==
    \/ IsIdentifier(columnName)
    \/ \E k \in 1..Len(columnName) :
          /\ columnName[k] = "."
          /\ IsIdentifier(SubSeq(columnName, 1, k - 1))
          /\ IsIdentifier(SubSeq(columnName, k + 1, Len(columnName)))

\* the SortDir texts callers use, and strings.ToUpper of each
SortDirs == {"", "asc", "desc", "DESC", "x;"}
ToUpper(dir) ==
    CASE dir = "asc" -> "ASC"
      [] dir = "desc" -> "DESC"
      [] dir = "x;" -> "X;"
      [] OTHER -> dir

\* strings.ToLower of an SQL text, piece by piece
ToLower(sql) ==
    [i \in DOMAIN sql |-> CASE sql[i] = "ORDER BY" -> "order by"
                            [] sql[i] = "ORDER  BY" -> "order  by"
                            [] OTHER -> sql[i]]

\* strings.Contains(text, "order by")
ContainsOrderBy(text) == \E i \in DOMAIN text : text[i] = "order by"

\* buildPagedSQL: the SortBy left on the request (an invalid one is erased)
SortByAfter(r) ==
    IF r.SortBy # <<>> /\ ~isValidColumnName(r.SortBy) THEN <<>> ELSE r.SortBy

\* buildPagedSQL: the SQL it returns
buildPagedSQL(originalSQL, r) ==
    LET sortDir == IF ToUpper(r.SortDir) = "DESC" THEN "DESC" ELSE "ASC"
        sql == IF /\ r.SortBy # <<>>
                  /\ isValidColumnName(r.SortBy)
                  /\ ~ContainsOrderBy(ToLower(originalSQL))
               THEN originalSQL \o <<"ORDER BY">> \o r.SortBy \o <<sortDir>>
               ELSE originalSQL
    IN  sql \o <<"LIMIT", r.Size, "OFFSET", r.Offset>>

\* updateSQL: Properties["sql"] = newSQL
updateSQL(props, newSQL) == SqlProperties(newSQL)

\* executeCountQuery: the total it reports for the count SQL, on a data
\* source that holds the given number of rows
executeCountQuery(countSQL, rows) == 100

\* faulty variant: the division rounds down
TotalPagesFloor(total, size) == total \div size

\* Intercept: int((total + int64(Size) - 1) / int64(Size))
TotalPages(total, size) == (total + size - 1) \div size

\* Intercept: the PageResult built around Proceed's rows
PageResult(total, r) ==
    [Total |-> total, Page |-> r.Page, Size |-> r.Size,
     TotalPages |-> TotalPages(total, r.Size),
     HasNext |-> r.Page < TotalPages(total, r.Size),
     HasPrev |-> r.Page > 1]

\* PaginationPlugin.Intercept up to its invocation.Proceed() call: the
\* caller's object afterwards, the request it works with, the Properties
\* handed downstream, and whether the result will be wrapped into a
\* PageResult
PaginationIntercept(props, kind, r) ==
    LET e == extractPageRequest(kind, r)
    IN  IF e.found /\ getOriginalSQL(props) # <<>>
        THEN [obj |-> IF kind = "ptr"
                      THEN [e.obj EXCEPT !.SortBy = SortByAfter(e.req)]
                      ELSE e.obj,
              req |-> e.req, extracted |-> TRUE, paging |-> TRUE,
              props |-> updateSQL(props, buildPagedSQL(getOriginalSQL(props), e.req))]
        ELSE [obj |-> e.obj, req |-> e.req, extracted |-> e.found,
              paging |-> FALSE, props |-> props]

\* PaginationPlugin.Intercept from its invocation.Proceed() call on, where
\* Proceed gives rows or the error db: the value and the error it returns,
\* the PageResult when the value is one, and how often it called Proceed
PaginationReturn(pi, db, rows) ==
    IF pi.paging /\ db = "nil"
    THEN [val |-> "page", err |-> "nil", proceeds |-> 1,
          page |-> PageResult(executeCountQuery(<<>>, rows), pi.req)]
    ELSE [val |-> IF db = "nil" THEN "rows" ELSE "nil", err |-> db,
          proceeds |-> 1, page |-> NoPage]

\* --------------------------------------------------- DefaultSqlSession
\* the mapped statements of the configuration, and an id that is not mapped
StatementType(id) ==
    CASE id = "sel" -> "SELECT" [] id = "ins" -> "INSERT"
      [] id = "upd" -> "UPDATE" [] id = "del" -> "DELETE" [] OTHER -> "none"

StatementIds == {"sel", "ins", "upd", "del", "missing"}

\* stmt.SQL
StmtSQL(id) == <<id>>

\* the statement type each operation asks for
OpType(op) ==
    CASE op \in {"SelectOne", "SelectList"} -> "SELECT"
      [] op = "Insert" -> "INSERT"
      [] op = "Update" -> "UPDATE"
      [] OTHER -> "DELETE"

\* faulty variant: the statement's type is not compared with the operation
PrecheckAnyType(op, id) ==
    IF sClosed THEN "session is closed"
    ELSE IF StatementType(id) = "none" THEN "statement not found"
    ELSE "nil"

\* faulty variant: the closed flag is not looked at
PrecheckOpen(op, id) ==
    IF StatementType(id) = "none" THEN "statement not found"
    ELSE IF StatementType(id) # OpType(op) THEN "wrong statement type"
    ELSE "nil"


\* the checks every operation starts with: "nil" when they pass
Precheck(op, id) ==
    IF sClosed THEN "session is closed"
    ELSE IF StatementType(id) = "none" THEN "statement not found"
    ELSE IF StatementType(id) # OpType(op) THEN "wrong statement type"
    ELSE "nil"

\* the manager registries a session is opened with (PluginBuilder)
SessionRegistries == {<<>>, <<1>>, <<PaginationPlugin>>, <<1, PaginationPlugin>>}

\* what the database call makes of the statement: rows, or an error
DbOutcomes == {"nil", "db error"}

\* InterceptMethod: the Properties of the Invocation it builds
InterceptMethodProperties == EmptyProperties

\* the record of a call rejected by the checks
Rejected(op, id, e) == [NoCall EXCEPT !.op = op, !.id = id, !.err = e]

\* SelectOne / SelectList once the checks have passed: through
\* InterceptMethod when the manager has plugins (plugin 1 passes the call
\* on), else invocation.Proceed() directly; the terminal is s.query(stmt, ..)
Select(op, id, kind, db) ==
    LET plugs == GetPlugins
        hasPage == \E i \in Indices(plugs) : plugs[i] = PaginationPlugin
        pi == IF hasPage
              THEN PaginationIntercept(InterceptMethodProperties, kind, req)
              ELSE [obj |-> req, req |-> NoRequest, extracted |-> FALSE,
                    paging |-> FALSE, props |-> InterceptMethodProperties]
        wrapped == pi.paging /\ db = "nil"
    IN  /\ req' = pi.obj
        /\ sRes' = [NoCall EXCEPT
                      !.op = op, !.id = id, !.kind = kind,
                      !.err = IF db # "nil" THEN db
                              ELSE IF wrapped /\ op = "SelectList"
                              THEN "unexpected result type from plugin"
                              ELSE "nil",
                      !.plugins = plugs,
                      !.entered = plugs,
                      !.recv = InterceptMethodProperties,
                      !.extracted = pi.extracted,
                      !.execSQL = StmtSQL(id),
                      !.pagedSQL = IF pi.paging THEN pi.props.sql ELSE <<>>,
                      !.paged = wrapped]

\* Insert / Update / Delete once the checks have passed: s.update(stmt, ..)
Modify(op, id, kind, db) ==
    /\ req' = req
    /\ sRes' = [NoCall EXCEPT !.op = op, !.id = id, !.err = db,
                              !.plugins = GetPlugins, !.execSQL = StmtSQL(id)]

\* a session operation with statement id and parameter
SessionCall(op, id, kind) ==
    /\ IF Precheck(op, id) # "nil"
       THEN /\ sRes' = Rejected(op, id, Precheck(op, id))
            /\ req' = req
       ELSE \E db \in DbOutcomes :
                IF OpType(op) = "SELECT"
                THEN Select(op, id, kind, db)
                ELSE Modify(op, id, kind, db)
    /\ UNCHANGED <<sClosed, mgrVars>>
    /\ UNCHANGED sessFrame

SelectOne(id, kind) == SessionCall("SelectOne", id, kind)
SelectList(id, kind) == SessionCall("SelectList", id, kind)
Insert(id, kind) == SessionCall("Insert", id, kind)
Update(id, kind) == SessionCall("Update", id, kind)
Delete(id, kind) == SessionCall("Delete", id, kind)

\* Close
Close ==
    /\ sClosed' = TRUE
    /\ sRes' = [NoCall EXCEPT !.op = "Close"]
    /\ UNCHANGED <<req, mgrVars>>
    /\ UNCHANGED sessFrame

\* Commit and Rollback; no code sets s.tx, so it is nil and an open session
\* has nothing to commit or to roll back
EndTransaction(op) ==
    /\ sRes' = [NoCall EXCEPT !.op = op,
                              !.err = IF sClosed THEN "session is closed" ELSE "nil"]
    /\ UNCHANGED <<sClosed, req, mgrVars>>
    /\ UNCHANGED sessFrame

Commit == EndTransaction("Commit")
Rollback == EndTransaction("Rollback")

\* GetMapper: nil on a closed session, else a new mapper proxy
GetMapper ==
    /\ sRes' = [NoCall EXCEPT !.op = "GetMapper",
                              !.val = IF sClosed THEN "nil" ELSE "mapper"]
    /\ UNCHANGED <<sClosed, req, mgrVars>>
    /\ UNCHANGED sessFrame

\* a factory over a manager with the given plugins, and OpenSession
OpenSession(plugs) ==
    /\ pmPlugins' = plugs
    /\ sClosed' = FALSE
    /\ sRes' = [NoCall EXCEPT !.op = "OpenSession"]
    /\ UNCHANGED req
    /\ UNCHANGED sessFrame

\* the caller makes a new PageRequest
NewPageRequest(page, size, offset) ==
    /\ req' = [NoRequest EXCEPT !.Page = page, !.Size = size, !.Offset = offset]
    /\ sRes' = NoCall
    /\ UNCHANGED <<sClosed, mgrVars>>
    /\ UNCHANGED sessFrame

\* the caller sets another Page on its PageRequest, for the next call
SetPage(page) ==
    /\ req.Page # page
    /\ req' = [req EXCEPT !.Page = page]
    /\ sRes' = NoCall
    /\ UNCHANGED <<sClosed, mgrVars>>
    /\ UNCHANGED sessFrame

\* PaginationPlugin.Intercept called with an Invocation made by hand, whose
\* Properties hold the statement's SQL or nothing and whose Proceed is a stub
Intercept(kind, props) ==
    LET pi == PaginationIntercept(props, kind, req)
    IN  /\ req' = pi.obj
        /\ \E db \in DbOutcomes : \E rows \in 0..MaxRows :
              sRes' = [NoCall EXCEPT !.op = "Intercept", !.id = "sel",
                         !.kind = kind,
                         !.err = PaginationReturn(pi, db, rows).err,
                         !.entered = <<PaginationPlugin>>, !.recv = props,
                         !.extracted = pi.extracted,
                         !.pagedSQL = IF pi.paging THEN pi.props.sql ELSE <<>>,
                         !.paged = (pi.paging /\ db = "nil"),
                         !.after = pi.props,
                         !.proceeds = PaginationReturn(pi, db, rows).proceeds,
                         !.down = db,
                         !.val = PaginationReturn(pi, db, rows).val,
                         !.rows = rows,
                         !.page = PaginationReturn(pi, db, rows).page,
                         !.arg = req]
        /\ UNCHANGED <<sClosed, mgrVars>>
        /\ UNCHANGED sessFrame

\* the values callers put into a PageRequest
PageInputs == 0..MaxPage \cup {PageLimit, PageLimit + 1}
SizeInputs == 0..MaxSize \cup {SizeLimit, SizeLimit + 1}

\* a session and its caller
NextSession ==
    \/ \E plugs \in SessionRegistries : OpenSession(plugs)
    \/ \E page \in 0..MaxPage : \E size \in 0..MaxSize :
           NewPageRequest(page, size, 0)
    \/ \E page \in 0..MaxPage : SetPage(page)
    \/ \E id \in StatementIds : \E kind \in ArgKinds : SelectOne(id, kind)
    \/ \E id \in StatementIds : \E kind \in ArgKinds : SelectList(id, kind)
    \/ \E id \in StatementIds : \E kind \in ArgKinds : Insert(id, kind)
    \/ \E id \in StatementIds : \E kind \in ArgKinds : Update(id, kind)
    \/ \E id \in StatementIds : \E kind \in ArgKinds : Delete(id, kind)
    \/ Commit
    \/ Rollback
    \/ GetMapper
    \/ Close

SpecSession == Init /\ [][NextSession]_vars

\* the pagination plugin called on its own, as its tests call it
NextPaging ==
    \/ \E page \in PageInputs : \E size \in SizeInputs :
           \E offset \in 0..MaxOffset : NewPageRequest(page, size, offset)
    \/ \E page \in PageInputs : SetPage(page)
    \/ \E kind \in ArgKinds :
           \E props \in {EmptyProperties, SqlProperties(StmtSQL("sel"))} :
               Intercept(kind, props)

SpecPaging == Init /\ [][NextPaging]_vars

\* the caller types one more character of the SortBy of its PageRequest
AppendSortBy(c) ==
    /\ Len(req.SortBy) < MaxColumnLen
    /\ req' = [req EXCEPT !.SortBy = Append(req.SortBy, c)]
    /\ sRes' = NoCall
    /\ UNCHANGED <<sClosed, mgrVars>>
    /\ UNCHANGED sessFrame

\* the caller sets the SortDir of its PageRequest
SetSortDir(dir) ==
    /\ req.SortDir # dir
    /\ req' = [req EXCEPT !.SortDir = dir]
    /\ sRes' = NoCall
    /\ UNCHANGED <<sClosed, mgrVars>>
    /\ UNCHANGED sessFrame

\* the SQL texts handed to buildPagedSQL: without an ORDER BY clause, with
\* one in lower and in upper case, and with one whose two keywords are
\* separated by more than one blank
SqlInputs ==
    {<<"sel">>, <<"sel", "order by", "id">>, <<"sel", "ORDER BY", "id">>,
     <<"sel", "ORDER  BY", "id">>}

\* plugin.buildPagedSQL(originalSQL, pageRequest) called on its own
BuildPagedSQL(originalSQL) ==
    /\ req' = [req EXCEPT !.SortBy = SortByAfter(req)]
    /\ sRes' = [NoCall EXCEPT !.op = "buildPagedSQL",
                               !.recv = SqlProperties(originalSQL),
                               !.pagedSQL = buildPagedSQL(originalSQL, req),
                               !.arg = req]
    /\ UNCHANGED <<sClosed, mgrVars>>
    /\ UNCHANGED sessFrame

\* buildPagedSQL under every SortBy text of up to MaxColumnLen characters
NextPagedSQL ==
    \/ \E offset \in {0, MaxOffset} : NewPageRequest(1, MaxSize, offset)
    \/ \E c \in ColumnChars : AppendSortBy(c)
    \/ \E dir \in SortDirs : SetSortDir(dir)
    \/ \E originalSQL \in SqlInputs : BuildPagedSQL(originalSQL)

SpecPagedSQL == Init /\ [][NextPagedSQL]_vars

\* --------------------------------------------------------- MapperProxy
\* A method name is its first word as written and the rest; a method type
\* is the sequence of the kinds of its declared return values.

\* the first words of the method names called: each prefix the proxy knows,
\* in some spelling, and two it does not know
FirstWords ==
    {"Get", "FIND", "select", "Query", "list", "Insert", "ADD", "create",
     "Save", "Update", "MODIFY", "edit", "Delete", "REMOVE", "Unsupported",
     "For"}

MethodNames ==
    {<<w, "User">> : w \in FirstWords \ {"For"}} \cup {<<"For", "get">>}

\* strings.ToLower of a word
ToLowerWord(w) ==
    CASE w = "Get" -> "get"
      [] w = "FIND" -> "find"
      [] w = "Query" -> "query"
      [] w = "Insert" -> "insert"
      [] w = "ADD" -> "add"
      [] w = "Save" -> "save"
      [] w = "Update" -> "update"
      [] w = "MODIFY" -> "modify"
      [] w = "Delete" -> "delete"
      [] w = "REMOVE" -> "remove"
      [] w = "Unsupported" -> "unsupported"
      [] w = "For" -> "for"
      [] w = "User" -> "user"
      [] OTHER -> w

\* strings.ToLower(methodName)
ToLowerName(methodName) == [i \in DOMAIN methodName |-> ToLowerWord(methodName[i])]

\* strings.HasPrefix(name, prefix), for a prefix that is a whole word
HasPrefix(name, prefix) == Len(name) >= 1 /\ name[1] = prefix

\* the declared return types of the methods called
MethodTypes ==
    {<<>>, <<"error">>, <<"interface", "error">>, <<"slice", "error">>,
     <<"int64", "error">>, <<"ptr", "error">>, <<"int", "error">>,
     <<"int64">>, <<"int64", "int64", "error">>}

\* methodType.NumOut()
NumOut(methodType) == Len(methodType)

\* faulty variant: a list method is one whose name starts with "list"
isSelectListMethodByName(methodName, methodType) ==
    HasPrefix(ToLowerName(methodName), "list")

\* isSelectListMethod: the first return value is a slice
isSelectListMethod(methodName, methodType) ==
    NumOut(methodType) > 0 /\ methodType[1] = "slice"

\* isSelectMethod: a read prefix, or a first return value that is a slice or
\* a pointer
isSelectMethod(methodName, methodType) ==
    \/ \E prefix \in {"get", "find", "select", "query", "list"} :
          HasPrefix(ToLowerName(methodName), prefix)
    \/ NumOut(methodType) > 0 /\ methodType[1] \in {"slice", "ptr"}

isInsertMethod(methodName) ==
    \E prefix \in {"insert", "add", "create", "save"} :
        HasPrefix(ToLowerName(methodName), prefix)

isUpdateMethod(methodName) ==
    \E prefix \in {"update", "modify", "edit"} :
        HasPrefix(ToLowerName(methodName), prefix)

isDeleteMethod(methodName) ==
    \E prefix \in {"delete", "remove"} :
        HasPrefix(ToLowerName(methodName), prefix)

\* invoke: the session operation it calls ("none": it calls none)
OperationOf(methodName, methodType) ==
    IF NumOut(methodType) = 0 THEN "none"
    ELSE IF isSelectMethod(methodName, methodType)
         THEN IF isSelectListMethod(methodName, methodType)
              THEN "SelectList" ELSE "SelectOne"
    ELSE IF isInsertMethod(methodName) THEN "Insert"
    ELSE IF isUpdateMethod(methodName) THEN "Update"
    ELSE IF isDeleteMethod(methodName) THEN "Delete"
    ELSE "none"

\* the arguments callers pass: an untyped nil, and two values
ArgValues == {"nil", "a", "b"}

\* reflect.ValueOf(arg).Interface() panics on the zero Value, which is what
\* reflect.ValueOf gives for an untyped nil
InterfacePanics(arg) == arg = "nil"

\* fmt.Sprintf("param%d", i+1), for the 0-based i of the code
ParamKey(i) == <<"param", i>>

\* invoke: the parameter built from the arguments
ParameterOf(args) ==
    IF Len(args) = 0 THEN NilParameter
    ELSE IF Len(args) = 1 THEN [NilParameter EXCEPT !.kind = "value", !.v = args[1]]
    ELSE [NilParameter EXCEPT
            !.kind = "map",
            !.m = [k \in {ParamKey(i) : i \in 1..Len(args)} |->
                      args[CHOOSE i \in 1..Len(args) : ParamKey(i) = k]]]

\* the dynamic types SelectOne's result has ("nil": a nil interface)
ResultTypes == {"nil", "map", "int64"}
SessionErrors == {"nil", "database error"}

\* what the session operation gives back: the dynamic type of its result
\* (SelectList gives a []interface{}, Insert, Update and Delete an int64)
\* and its error
SessionResult(op, one, err) ==
    [type |-> CASE op = "SelectOne" -> one
                [] op = "SelectList" -> "slice"
                [] op = "none" -> "nil"
                [] OTHER -> "int64",
     err |-> err]

\* reflect.Zero(t), reflect.ValueOf(result), reflect.ValueOf(err)
Zero(t) == [k |-> "zero", type |-> t, err |-> "nil"]
ValueOf(t) == [k |-> "value", type |-> t, err |-> "nil"]
ErrorValue(e) == [k |-> "value", type |-> "error", err |-> e]

\* invoke: the return values built from result and err
Returns(methodType, resultType, err) ==
    LET numOut == NumOut(methodType)
        hasError == numOut > 0 /\ methodType[numOut] = "error"
        first == IF resultType # "nil" THEN ValueOf(resultType)
                 ELSE Zero(methodType[1])
    IN  IF hasError
        THEN IF numOut = 2
             THEN IF err # "nil"
                  THEN <<Zero(methodType[1]), ErrorValue(err)>>
                  ELSE <<first, Zero(methodType[2])>>
             ELSE IF numOut = 1
             THEN IF err # "nil" THEN <<ErrorValue(err)>>
                  ELSE <<Zero(methodType[1])>>
             ELSE <<>>
        ELSE <<first>>

\* MapperProxy.invoke
invoke(methodName, methodType, args, one, sessErr) ==
    IF \E i \in DOMAIN args : InterfacePanics(args[i])
    THEN [NoInvoke EXCEPT !.done = TRUE, !.panic = TRUE]
    ELSE IF NumOut(methodType) = 0
    THEN [NoInvoke EXCEPT !.done = TRUE, !.parameter = ParameterOf(args)]
    ELSE LET op == OperationOf(methodName, methodType)
             r == SessionResult(op, one, sessErr)
             err == IF op = "none" THEN "unsupported method" ELSE r.err
         IN  [done |-> TRUE, panic |-> FALSE, op |-> op,
              parameter |-> ParameterOf(args), err |-> err,
              returns |-> Returns(methodType, r.type, err)]

\* the caller picks the method of the mapper interface it calls
SetMethodName(methodName) ==
    /\ mp.name # methodName
    /\ mp' = [mp EXCEPT !.name = methodName, !.ret = NoInvoke]
    /\ UNCHANGED mapFrame

\* the mapper interface declares the method with these return values
SetMethodType(methodType) ==
    /\ mp.outs # methodType
    /\ mp' = [mp EXCEPT !.outs = methodType, !.ret = NoInvoke]
    /\ UNCHANGED mapFrame

\* the caller passes one more argument
AddArg(arg) ==
    /\ Len(mp.args) < MaxArgs
    /\ mp' = [mp EXCEPT !.args = Append(mp.args, arg), !.ret = NoInvoke]
    /\ UNCHANGED mapFrame

\* the session is set to answer with a result of this type and this error
SetSession(one, err) ==
    /\ <<mp.one, mp.err>> # <<one, err>>
    /\ mp' = [mp EXCEPT !.one = one, !.err = err, !.ret = NoInvoke]
    /\ UNCHANGED mapFrame

\* the call goes through invoke
Invoke ==
    /\ ~mp.ret.done
    /\ mp' = [mp EXCEPT !.ret = invoke(mp.name, mp.outs, mp.args, mp.one, mp.err)]
    /\ UNCHANGED mapFrame

NextMapper ==
    \/ \E methodName \in MethodNames : SetMethodName(methodName)
    \/ \E methodType \in MethodTypes : SetMethodType(methodType)
    \/ \E arg \in ArgValues : AddArg(arg)
    \/ \E one \in ResultTypes : \E err \in SessionErrors : SetSession(one, err)
    \/ Invoke

SpecMapper == Init /\ [][NextMapper]_vars

\* ------------------------------------------------------- BatchExecutor
\* a queued statement: its type, and whether its parameter can be bound
BatchStatements ==
    [type : {"INSERT", "UPDATE"}, bindable : BOOLEAN]

\* what the driver's result offers: LastInsertId and RowsAffected, only
\* RowsAffected, or neither
Drivers == {"id", "affected", "none"}

\* the result ExecuteBatch appends for the i-th statement
BatchResult(i, stmt, driver) ==
    [of |-> i,
     from |-> IF stmt.type = "INSERT" /\ driver = "id" THEN "LastInsertId"
              ELSE IF driver \in {"id", "affected"} THEN "RowsAffected"
              ELSE "zero"]

\* the calls made on the database and the transaction
TxBegin == [ev |-> "Begin", i |-> 0]
TxExec(i) == [ev |-> "Exec", i |-> i]
TxCommit == [ev |-> "Commit", i |-> 0]
TxRollback == [ev |-> "Rollback", i |-> 0]

\* the first statement whose BindParameters or tx.Exec fails (0: none);
\* execFail is the statement the database refuses (0: none)
FirstFailure(queue, execFail) ==
    LET bad == {i \in DOMAIN queue : ~queue[i].bindable \/ i = execFail}
    IN  IF bad = {} THEN 0 ELSE CHOOSE i \in bad : \A j \in bad : i <= j

\* faulty variant: a failure of BindParameters returns without Rollback
RollsBackOnExecOnly(stmt) == stmt.bindable

\* ExecuteBatch: tx.Rollback() is called when binding or executing fails
RollsBackOn(stmt) == TRUE

\* faulty variant: the queue is kept after the commit
QueueAfterKept(queue, err) == queue

\* ExecuteBatch: e.statements = e.statements[:0] after the commit only
QueueAfter(queue, err) == IF err = "nil" THEN <<>> ELSE queue

\* ExecuteBatch on a queue, for the outcomes of Begin, tx.Exec and Commit
executeBatch(queue, beginErr, execFail, commitErr, driver) ==
    LET f == FirstFailure(queue, execFail)
        n == IF f = 0 THEN Len(queue) ELSE f - 1
        execs == [i \in 1..n |-> TxExec(i)]
    IN  IF Len(queue) = 0
        THEN [NoBatch EXCEPT !.called = TRUE]
        ELSE IF beginErr
        THEN [NoBatch EXCEPT !.called = TRUE, !.before = queue,
                             !.err = "failed to begin transaction"]
        ELSE IF f # 0
        THEN [called |-> TRUE, before |-> queue,
              tx |-> <<TxBegin>> \o execs \o
                     (IF RollsBackOn(queue[f]) THEN <<TxRollback>> ELSE <<>>),
              results |-> <<>>,
              err |-> IF ~queue[f].bindable THEN "failed to bind parameters"
                      ELSE "failed to execute batch statement"]
        ELSE [called |-> TRUE, before |-> queue,
              tx |-> <<TxBegin>> \o execs \o <<TxCommit>>,
              results |-> IF commitErr THEN <<>>
                          ELSE [i \in 1..n |-> BatchResult(i, queue[i], driver)],
              err |-> IF commitErr THEN "failed to commit transaction" ELSE "nil"]

\* AddBatch(statement, parameter)
AddBatch(stmt) ==
    /\ Len(statements) < MaxBatch
    /\ statements' = Append(statements, stmt)
    /\ batch' = NoBatch
    /\ UNCHANGED batchFrame

\* ExecuteBatch()
ExecuteBatch ==
    /\ \E beginErr, commitErr \in BOOLEAN : \E execFail \in 0..Len(statements) :
         \E driver \in Drivers :
           /\ batch' = executeBatch(statements, beginErr, execFail, commitErr, driver)
           /\ statements' = QueueAfter(statements, batch'.err)
    /\ UNCHANGED batchFrame

NextBatch ==
    \/ \E stmt \in BatchStatements : AddBatch(stmt)
    \/ ExecuteBatch

SpecBatch == Init /\ [][NextBatch]_vars

\* ------------------------------------------------------ PluginRegistry
\* Each method holds pr.mutex from its first statement to its return, so each
\* is one step.

\* the names managers are registered under, and the managers (nil is one)
ManagerNames == {"default", "custom"}
Managers == {"nil", "m1", "m2"}

\* pr.managers[name] = manager
PutManager(ms, name, manager) ==
    [n \in DOMAIN ms \cup {name} |-> IF n = name THEN manager ELSE ms[n]]

\* faulty variant: the whole map is cleared
DeleteManagerAll(ms, name) == <<>>

\* delete(pr.managers, name)
DeleteManager(ms, name) == [n \in DOMAIN ms \ {name} |-> ms[n]]

\* RegisterManager(name, manager)
RegisterManager(name, manager) ==
    /\ Len(nameLog) < MaxRegistryOps
    /\ managers' = PutManager(managers, name, manager)
    /\ nameLog' = Append(nameLog, [op |-> "RegisterManager", name |-> name,
                                   manager |-> manager])
    /\ nameRes' = [NoNameCall EXCEPT !.op = "RegisterManager", !.name = name]
    /\ UNCHANGED nameFrame

\* GetManager(name): the manager, or nil, and whether the name exists
GetManager(name) ==
    /\ nameRes' = [op |-> "GetManager", name |-> name,
                   manager |-> IF name \in DOMAIN managers THEN managers[name]
                               ELSE "nil",
                   ok |-> name \in DOMAIN managers]
    /\ UNCHANGED <<managers, nameLog>>
    /\ UNCHANGED nameFrame

\* RemoveManager(name): whether the name existed
RemoveManager(name) ==
    /\ Len(nameLog) < MaxRegistryOps
    /\ managers' = IF name \in DOMAIN managers
                   THEN DeleteManager(managers, name) ELSE managers
    /\ nameLog' = Append(nameLog, [op |-> "RemoveManager", name |-> name,
                                   manager |-> "nil"])
    /\ nameRes' = [NoNameCall EXCEPT !.op = "RemoveManager", !.name = name,
                                     !.ok = name \in DOMAIN managers]
    /\ UNCHANGED nameFrame

NextRegistry ==
    \/ \E name \in ManagerNames : \E manager \in Managers :
           RegisterManager(name, manager)
    \/ \E name \in ManagerNames : GetManager(name)
    \/ \E name \in ManagerNames : RemoveManager(name)

SpecRegistry == Init /\ [][NextRegistry]_vars

\* ---------------------------------- one PluginChain, two goroutines
\* faulty variant: Proceed without chain.mutex.Lock()
ProceedCanEnterUnlocked(m) == TRUE

\* Proceed: chain.mutex.Lock() is granted
ProceedCanEnter(m) == CanLock(m)

\* the deferred chain.mutex.Unlock()
Unlocked(m) == [m EXCEPT !.writer = 0]

\* NewPluginChain(plugins, target), the chain handed to both goroutines
ShareChain(plugs) ==
    /\ ~sharedChain.made
    /\ sharedChain' = [NoSharedChain EXCEPT !.made = TRUE, !.plugins = plugs]
    /\ UNCHANGED callerState
    /\ UNCHANGED shareFrame

\* goroutine t calls chain.Proceed and arrives at chain.mutex.Lock()
ProceedCall(t) ==
    /\ sharedChain.made
    /\ callerState[t].pc = "idle"
    /\ callerState[t].calls < MaxChainCalls
    /\ callerState' = [callerState EXCEPT ![t].pc = "lock", ![t].calls = @ + 1,
                                           ![t].ret = NoResult]
    /\ UNCHANGED sharedChain
    /\ UNCHANGED shareFrame

\* chain.mutex.Lock() returns in goroutine t
ProceedLocked(t) ==
    /\ callerState[t].pc = "lock"
    /\ ProceedCanEnter(sharedChain.mutex)
    /\ sharedChain' = [sharedChain EXCEPT !.mutex.writer = t]
    /\ callerState' = [callerState EXCEPT ![t].pc = "check"]
    /\ UNCHANGED shareFrame

\* Proceed in goroutine t: the completed check; a rejected call returns
\* (and unlocks), another goes on to proceedNext
ProceedCheck(t) ==
    /\ callerState[t].pc = "check"
    /\ IF Rejects(sharedChain.completed)
       THEN /\ sharedChain' = [sharedChain EXCEPT !.mutex = Unlocked(@)]
            /\ callerState' = [callerState EXCEPT ![t].pc = "idle",
                                                   ![t].ret = AlreadyCompleted]
       ELSE /\ callerState' = [callerState EXCEPT ![t].pc = "run"]
            /\ UNCHANGED sharedChain
    /\ UNCHANGED shareFrame

\* proceedNext in goroutine t enters the next interceptor
ProceedEnter(t) ==
    /\ callerState[t].pc = "run"
    /\ ~AtTarget(sharedChain.currentIndex, sharedChain.plugins)
    /\ sharedChain' = [sharedChain EXCEPT !.currentIndex = NextIndex(@)]
    /\ UNCHANGED callerState
    /\ UNCHANGED shareFrame

\* what comes back to Proceed: an interceptor's own result or error, or, when
\* every interceptor was entered, the terminal call's
SharedResults(c) ==
    (IF c.currentIndex > 0 THEN {PluginOK, PluginErr} ELSE {})
    \cup (IF AtTarget(c.currentIndex, c.plugins) THEN {TermOK, TermErr} ELSE {})

\* Proceed in goroutine t after proceedNext has returned r, with the
\* callbacks fns on the context: the rollback, the completed flag, the
\* return and the deferred Unlock
ProceedReturn(t, r, fns) ==
    /\ callerState[t].pc = "run"
    /\ r \in SharedResults(sharedChain)
    /\ sharedChain' = [sharedChain EXCEPT
                          !.completed = CompletedAfter(r, fns, @),
                          !.mutex = Unlocked(@)]
    /\ callerState' = [callerState EXCEPT ![t].pc = "idle",
                                           ![t].ret = ProceedResult(r, fns)]
    /\ UNCHANGED shareFrame

NextShared ==
    \/ \E plugs \in PluginLists : ShareChain(plugs)
    \/ \E t \in Callers : ProceedCall(t)
    \/ \E t \in Callers : ProceedLocked(t)
    \/ \E t \in Callers : ProceedCheck(t)
    \/ \E t \in Callers : ProceedEnter(t)
    \/ \E t \in Callers : \E r \in {TermOK, TermErr, PluginOK, PluginErr} :
           \E fns \in {<<>>, <<"fail">>} : ProceedReturn(t, r, fns)

SpecShared == Init /\ [][NextShared]_vars

\* ------------------------------------------------------------- claims
\* how often the Intercept of chain position i was called on this chain
Count(i) == Cardinality({k \in Indices(enterLog) : enterLog[k] = i})

OnStack(i) == \E k \in Indices(stack) : stack[k].idx = i

\* a Proceed call on the chain has returned and none is running
Returned == pc = "idle" /\ calls >= 1

\* the positions of the callbacks that fail
Failing(fns) == {j \in Indices(fns) : fns[j] = "fail"}

\* C1: over the lifetime of one chain the original Proceed handed to it is
\* called at most once, whatever the interceptors do and however often
\* chain.Proceed is called.
C1_TerminalAtMostOnce == termCalls <= 1

\* C2: when every interceptor that is run calls invocation.Proceed() exactly
\* once, the first Proceed call of a chain of N >= 0 interceptors has run each
\* of the N interceptors exactly once and the original Proceed exactly once.
C2_EachOnceRunsAllOnce ==
    ( /\ pc = "idle"
      /\ calls = 1
      /\ hasProceed
      /\ \A i \in Indices(chainPlugins) : Count(i) >= 1 => procCalls[i] = 1 )
    => ( /\ \A i \in Indices(chainPlugins) : Count(i) = 1
         /\ callTerm = 1
         /\ termCalls = 1 )

C2_Witness ==
    /\ pc = "idle"
    /\ calls = 1
    /\ hasProceed
    /\ Len(chainPlugins) = 2
    /\ \A i \in Indices(chainPlugins) : procCalls[i] = 1
    /\ termCalls = 1

\* C3: once the interceptor at position k has returned without calling
\* invocation.Proceed(), no interceptor behind it and no terminal call is
\* ever executed for that chain.
C3_VetoStopsDownstream ==
    \A k \in Indices(chainPlugins) :
        (Count(k) >= 1 /\ ~OnStack(k) /\ procCalls[k] = 0)
        => ( /\ \A j \in Indices(chainPlugins) : j > k => Count(j) = 0
             /\ callTerm = 0
             /\ termCalls = 0 )

\* C4: in a chain built by InterceptMethod the interceptors are entered in
\* ascending GetOrder(), and the terminal call is made only when every
\* interceptor of the chain has been entered.
C4_EnteredInOrder ==
    viaManager =>
        /\ \A a \in Indices(enterLog) : \A b \in Indices(enterLog) :
              a < b => GetOrder(chainPlugins[enterLog[a]])
                           <= GetOrder(chainPlugins[enterLog[b]])
        /\ callTerm > 0 => \A i \in Indices(chainPlugins) : Count(i) >= 1

C4_Witness ==
    /\ viaManager
    /\ callTerm > 0
    /\ Len(chainPlugins) = 2
    /\ GetOrder(chainPlugins[1]) < GetOrder(chainPlugins[2])
    /\ enterLog = <<1, 2>>

\* C5 (as stated): whenever a Proceed call ends with an error, every rollback
\* callback registered on the invocation's context has been run exactly once,
\* in the reverse of registration order.
C5_RollbackOnEveryError ==
    (Returned /\ lastResult.err # "nil")
    => rollbackLog = Downto(Len(rollbackFuncs))

\* C5 (amended): whenever a Proceed call that was not rejected as already
\* completed ends with an error, every rollback callback registered on the
\* context has been run exactly once in that call, in the reverse of
\* registration order, the failing ones included.
C5_RollbackOnChainError ==
    (Returned /\ lastResult.err # "nil" /\ lastResult # AlreadyCompleted)
    => rollbackLog = Downto(Len(rollbackFuncs))

C5_Witness ==
    /\ Returned
    /\ lastResult.err = "combined"
    /\ rollbackFuncs = <<"ok", "fail">>
    /\ rollbackLog = <<2, 1>>

\* C6: a Proceed call that returns a nil error has run no rollback callback.
C6_NoRollbackOnSuccess ==
    (Returned /\ lastResult.err = "nil") => rollbackLog = <<>>

C6_Witness ==
    /\ Returned
    /\ lastResult.err = "nil"
    /\ termFailed
    /\ Len(rollbackFuncs) > 0

\* C7: when the chain fails and k >= 1 rollback callbacks fail too, Proceed
\* returns a nil result and one error that carries the original error and
\* all k rollback errors.
C7_CombinedErrorKeepsAll ==
    (Returned /\ chainResult.err \notin {"nil", "none"} /\ Failing(rollbackFuncs) # {})
    => ( /\ lastResult.val = "nil"
         /\ lastResult.err = "combined"
         /\ lastResult.cause = chainResult.err
         /\ Len(lastResult.rb) = Cardinality(Failing(rollbackFuncs))
         /\ {lastResult.rb[i] : i \in Indices(lastResult.rb)} = Failing(rollbackFuncs) )

C7_Witness ==
    /\ Returned
    /\ chainResult = PluginBoth
    /\ rollbackFuncs = <<"fail", "fail">>
    /\ lastResult.val = "nil"
    /\ Len(lastResult.rb) = 2

\* C8 (as stated): if the terminal call returned an error, the rollback
\* callbacks are run before Proceed returns, whatever the interceptors return.
C8_RollbackAfterTerminalError ==
    (Returned /\ termFailed) => rollbackLog = Downto(Len(rollbackFuncs))

\* C8 (amended): if the terminal call returned an error, the rollback
\* callbacks are run before Proceed returns exactly when the outermost
\* interceptor returns an error to Proceed (the terminal's or one of its own);
\* when the error is swallowed upstream, none is run.
C8_RollbackIffErrorReachesProceed ==
    (Returned /\ termFailed)
    => rollbackLog = (IF chainResult.err # "nil"
                      THEN Downto(Len(rollbackFuncs)) ELSE <<>>)

C8_Witness ==
    /\ Returned
    /\ termFailed
    /\ chainResult = PluginErr
    /\ Len(rollbackFuncs) = 2
    /\ rollbackLog = <<2, 1>>

\* C9: after any Proceed call has returned, the chain is completed.
C9_CompletedAfterProceed == Returned => completed

\* C10: a Proceed call on a completed chain returns the 'plugin chain already
\* completed' error, calls no interceptor, no terminal call and no rollback
\* callback, and leaves the cursor and the completed flag as they were.
C10_CompletedRejects ==
    [][ (pc = "idle" /\ completed /\ calls' = calls + 1)
        => ( /\ lastResult' = AlreadyCompleted
             /\ completed'
             /\ currentIndex' = currentIndex
             /\ enterLog' = enterLog
             /\ termCalls' = termCalls
             /\ callTerm' = 0
             /\ rollbackLog' = <<>>
             /\ stack' = <<>>
             /\ pc' = "idle" ) ]_vars

C10_Witness ==
    /\ Returned
    /\ lastResult = AlreadyCompleted
    /\ Len(rollbackFuncs) > 0
    /\ currentIndex < Len(chainPlugins)


\* C11: a chain in flight executes exactly the interceptors the registry held
\* when InterceptMethod took its snapshot, in the snapshot's order: AddPlugin
\* and RemovePlugin calls interleaved with the chain add, remove and reorder
\* nothing in it, and once the terminal call is reached every interceptor of
\* the snapshot has been executed.
C11_SnapshotIsolation ==
    viaManager =>
        /\ Len(enterIds) <= Len(chainPlugins)
        /\ \A k \in Indices(enterIds) : enterIds[k] = chainPlugins[k]
        /\ (callTerm > 0 => enterIds = chainPlugins)

\* the whole snapshot was executed while the registry holds other plugins
C11_Witness ==
    /\ viaManager
    /\ pc = "running"
    /\ callTerm > 0
    /\ enterIds = <<2, 1>>
    /\ pmPlugins = <<2, 2>>


\* the AddPlugin calls that have returned, over the given goroutines
RECURSIVE AddsReturned(_)
AddsReturned(gs) ==
    IF gs = {} THEN 0
    ELSE LET g == CHOOSE x \in gs : TRUE
         IN  addsDone[g] + AddsReturned(gs \ {g})

\* no goroutine is inside a PluginManager call
Quiet == \A g \in Goroutines : gpc[g] = "idle"

\* C12: AddPlugin calls made concurrently from several goroutines lose no
\* write: when all of them have returned (and nothing was removed),
\* GetPluginCount is the total number of AddPlugin calls.
C12_NoLostAdd ==
    (Quiet /\ removesDone = 0) => GetPluginCount = AddsReturned(Writers)

\* both goroutines have made all their AddPlugin calls
C12_Witness ==
    /\ Quiet
    /\ removesDone = 0
    /\ \A g \in Writers : addsDone[g] = MaxAddCalls
    /\ GetPluginCount = Cardinality(Writers) * MaxAddCalls
    /\ reads > 0
    /\ Len(observed) = 1


\* C13: after any sequence of AddPlugin and RemovePlugin calls, and at every
\* point a concurrent reader can observe, GetPlugins is in ascending
\* GetOrder() order: the registry whenever no writer holds the mutex, the
\* copy a reader is making, and every list GetPlugins has returned.
C13_AlwaysSorted ==
    /\ (mutex.writer = 0 => IsSortedByOrder(pmPlugins))
    /\ \A g \in Readers : IsSortedByOrder(gtmp[g])
    /\ IsSortedByOrder(observed)

\* a reader got three plugins of both orders, after adds and a removal
C13_Witness ==
    /\ reads > 0
    /\ removesDone = 1
    /\ Len(observed) = 3
    /\ observed[1] = 2
    /\ observed[3] = 1


\* the plugins of s whose GetOrder() is o, in their order in s
OfOrder(s, o) == SelectSeq(s, LAMBDA x : GetOrder(x) = o)

\* C14: interceptors with equal GetOrder() appear in GetPlugins in the order
\* in which they were added, whatever the number of interceptors and the
\* sequence of AddPlugin calls.
C14_TiesInRegistrationOrder ==
    \A p \in PluginIds :
        OfOrder(GetPlugins, GetOrder(p)) = OfOrder(regOrder, GetOrder(p))

\* C15: AddPlugin(x) followed by RemovePlugin for x brings GetPlugins back to
\* the length and contents it had before, whatever the registry held,
\* another interceptor of x's type included.
C15_AddRemoveRoundTrip ==
    lastOp = "undo" => GetPlugins = before


\* the dispatch is in a rollback callback that calls the context API of its
\* invocation while its own ExecuteRollback holds the context's mutex: the
\* call waits for a lock that only the waiting goroutine can release
SelfBlocked(d) ==
    /\ dpc[d] = "rollback"
    /\ didx[d] > 0
    /\ ctx[ContextOf(d)].funcs[didx[d]].kind = "ctx"
    /\ ctx[ContextOf(d)].mutex.writer = d

\* C16: the pipeline never blocks on its own locks: an interceptor or a
\* rollback callback that uses the context API of its invocation
\* (SetPluginState, GetPluginState, AddRollbackFunc) is never left waiting
\* for a lock that the same Proceed call holds.
C16_NeverBlocksOnOwnLock ==
    \A d \in Dispatches : ~SelfBlocked(d)

\* C17: each dispatch has its own invocation context: a rollback runs only
\* callbacks registered during its own, failing, dispatch, and GetPluginState
\* gives a dispatch only plugin state set in that dispatch.
C17_DispatchIsolation ==
    \A d \in Dispatches :
        /\ ran[d] \subseteq {d}
        /\ (ran[d] # {} => failed[d])
        /\ seen[d] \subseteq {d}

\* dispatch 1 failed and ran its callback, dispatch 2 succeeded with a
\* callback registered, and both read the state they had set
C17_Witness ==
    /\ dpc[1] = "returned" /\ failed[1] /\ ran[1] = {1}
    /\ dpc[2] = "returned" /\ ~failed[2] /\ Len(ctx[ContextOf(2)].funcs) > 0
    /\ seen[1] = {1}
    /\ seen[2] = {2}


\* the last call was a session operation that executed its statement
Executed == sRes.execSQL # <<>>

\* C18: every mapped operation of a session (Insert, Update, Delete,
\* SelectOne, SelectList) goes through the interceptor chain: when the
\* session's manager holds an interceptor, a call that executes its statement
\* has entered that interceptor.
C18_EveryOperationIntercepted ==
    (Executed /\ Len(sRes.plugins) > 0) => sRes.entered = sRes.plugins

\* the last call was a select, with a valid paging parameter, on a session
\* whose manager holds the pagination plugin
PagedSelect ==
    /\ sRes.op \in {"SelectOne", "SelectList"}
    /\ Executed
    /\ \E i \in Indices(sRes.plugins) : sRes.plugins[i] = PaginationPlugin
    /\ sRes.kind # "nil"
    /\ validatePageRequest(req)

\* C19: when a session with the pagination plugin runs a select with a valid
\* paging parameter, the interceptor receives the statement's SQL in
\* Properties["sql"] and the terminal call executes the rewritten SQL, the
\* one with LIMIT and OFFSET.
C19_PagedSqlExecuted ==
    PagedSelect =>
        /\ sRes.recv = SqlProperties(StmtSQL(sRes.id))
        /\ sRes.pagedSQL # <<>>
        /\ sRes.execSQL = sRes.pagedSQL

\* C20: the OFFSET the pagination interceptor writes into the paged SQL is
\* (page-1)*size of the request of that call: for a new request, for one
\* whose Offset the caller had set, and for a *PageRequest passed again with
\* another Page.
C20_OffsetIsPageTimesSize ==
    sRes.pagedSQL # <<>> =>
        sRes.pagedSQL[Len(sRes.pagedSQL)] = (req.Page - 1) * req.Size


\* C21: the PageResult of a paged call has TotalPages = ceil(Total/Size) (the
\* least number of pages of Size rows that hold Total rows), HasNext = (Page <
\* TotalPages), HasPrev = (Page > 1), and the Page and Size of the request.
C21_PageResultTotals ==
    sRes.val = "page" =>
        /\ sRes.page.TotalPages * sRes.page.Size >= sRes.page.Total
        /\ (sRes.page.TotalPages - 1) * sRes.page.Size < sRes.page.Total
        /\ sRes.page.HasNext = (sRes.page.Page < sRes.page.TotalPages)
        /\ sRes.page.HasPrev = (sRes.page.Page > 1)
        /\ sRes.page.Page = req.Page
        /\ sRes.page.Size = req.Size

\* a paged call for page 2 with the largest size: one page, no next page, a
\* previous one
C21_Witness ==
    /\ sRes.val = "page"
    /\ req.Page = 2
    /\ req.Size = SizeLimit
    /\ sRes.page.TotalPages = 1
    /\ ~sRes.page.HasNext
    /\ sRes.page.HasPrev


\* the identifier grammar: a letter or underscore followed by letters, digits
\* or underscores, optionally one table.column qualifier
NameChar(c) == c \in {"a", "Z", "1", "_"}
InGrammar(s) ==
    LET dots == {i \in DOMAIN s : s[i] = "."}
    IN  /\ Len(s) >= 1
        /\ Cardinality(dots) <= 1
        /\ \A i \in DOMAIN s \ dots : NameChar(s[i])
        /\ s[1] \notin {"1", "."}
        /\ \A i \in dots : i < Len(s) /\ s[i + 1] # "1"

\* C22: for every SortBy text that does not match the identifier grammar,
\* buildPagedSQL returns the original SQL followed by LIMIT <size> OFFSET
\* <offset> and nothing else: no ORDER BY, none of the SortBy text.
C22_InvalidColumnNeverAppended ==
    (sRes.op = "buildPagedSQL" /\ ~InGrammar(sRes.arg.SortBy)) =>
        sRes.pagedSQL =
            sRes.recv.sql \o <<"LIMIT", sRes.arg.Size, "OFFSET", sRes.arg.Offset>>

\* buildPagedSQL was given a SortBy that starts like a column name and goes
\* on with a character outside the grammar, on an SQL without ORDER BY
C22_Witness ==
    /\ sRes.op = "buildPagedSQL"
    /\ sRes.arg.SortBy = <<"a", ";", "a">>
    /\ sRes.recv.sql = <<"sel">>
    /\ sRes.pagedSQL = <<"sel", "LIMIT", MaxSize, "OFFSET", 0>>


\* no paging applies to the call: no request, a request out of range, or no
\* Properties["sql"]
NoPagingApplies ==
    \/ sRes.kind = "nil"
    \/ sRes.arg.Page < 1
    \/ sRes.arg.Size < 1
    \/ sRes.arg.Size > SizeLimit
    \/ sRes.arg.Page > PageLimit
    \/ ~sRes.recv.present

\* C23: when no paging applies, the pagination interceptor calls
\* invocation.Proceed() exactly once, leaves Properties["sql"] as it got it,
\* and returns the value and the error of Proceed as they are.
C23_PassThroughWhenNoPaging ==
    (sRes.op = "Intercept" /\ NoPagingApplies) =>
        /\ sRes.proceeds = 1
        /\ sRes.after = sRes.recv
        /\ sRes.err = sRes.down
        /\ sRes.val = (IF sRes.down = "nil" THEN "rows" ELSE "nil")

\* a *PageRequest with Size over the limit came with an SQL in the
\* Properties, and Proceed failed
C23_Witness ==
    /\ sRes.op = "Intercept"
    /\ sRes.kind = "ptr"
    /\ sRes.arg.Page = 1
    /\ sRes.arg.Size = SizeLimit + 1
    /\ sRes.recv.present
    /\ sRes.after = sRes.recv
    /\ sRes.down = "db error"
    /\ sRes.err = "db error"


\* C24: the Total of a PageResult is the number of rows the data source
\* holds for the statement, obtained by running the count query downstream.
C24_TotalIsRowCount ==
    sRes.val = "page" => sRes.page.Total = sRes.rows


\* what the first word of a method name stands for, whatever its spelling
PrefixKind(methodName) ==
    LET w == methodName[1]
    IN  CASE w \in {"Get", "FIND", "select", "Query", "list"} -> "read"
          [] w \in {"Insert", "ADD", "create", "Save"} -> "Insert"
          [] w \in {"Update", "MODIFY", "edit"} -> "Update"
          [] w \in {"Delete", "REMOVE"} -> "Delete"
          [] OTHER -> "none"

\* invoke ran to its end
Invoked == mp.ret.done /\ ~mp.ret.panic

\* C25: the session operation is chosen by the prefix of the method name
\* alone, in any spelling: a read prefix gives SelectOne or SelectList, an
\* insert, update or delete prefix gives Insert, Update or Delete, and any
\* other name gives the error 'unsupported method' and no session operation.
C25_OperationByNamePrefixAlone ==
    Invoked =>
        CASE PrefixKind(mp.name) = "read" ->
                mp.ret.op \in {"SelectOne", "SelectList"}
          [] PrefixKind(mp.name) = "none" ->
                mp.ret.op = "none" /\ mp.ret.err = "unsupported method"
          [] OTHER -> mp.ret.op = PrefixKind(mp.name)

\* C26: a read whose method declares return values goes to SelectList exactly
\* when the first declared return value is a slice, and to SelectOne
\* otherwise, whatever the method is called.
C26_ListByReturnShape ==
    (/\ Invoked
     /\ Len(mp.outs) > 0
     /\ \/ PrefixKind(mp.name) = "read"
        \/ mp.ret.op \in {"SelectOne", "SelectList"}) =>
        mp.ret.op = (IF mp.outs[1] = "slice" THEN "SelectList" ELSE "SelectOne")

\* a method called list... that declares a single value was read with
\* SelectOne
C26_Witness ==
    /\ Invoked
    /\ mp.name = <<"list", "User">>
    /\ mp.outs = <<"interface", "error">>
    /\ mp.ret.op = "SelectOne"

\* C27: when the session operation fails, the caller gets that error in the
\* error position and the zero value of each declared result type, for every
\* declared return shape.
C27_ErrorWithZeroResult ==
    (Invoked /\ mp.ret.op # "none" /\ mp.err # "nil") =>
        /\ Len(mp.ret.returns) = Len(mp.outs)
        /\ mp.ret.returns[Len(mp.outs)] = ErrorValue(mp.err)
        /\ \A i \in 1..(Len(mp.outs) - 1) : mp.ret.returns[i] = Zero(mp.outs[i])

\* a value of the dynamic type can be assigned to the declared type, or
\* converted to it
AssignableTo(dynamic, declared) == declared = "interface" \/ dynamic = declared
ConvertibleTo(dynamic, declared) ==
    AssignableTo(dynamic, declared) \/ (dynamic = "int64" /\ declared = "int")

\* C28: a result of the session operation whose dynamic type can neither be
\* assigned nor converted to the declared return type reaches the caller as
\* an error.
C28_MismatchSurfacesAsError ==
    (/\ Invoked
     /\ mp.ret.op # "none"
     /\ mp.err = "nil"
     /\ SessionResult(mp.ret.op, mp.one, mp.err).type # "nil"
     /\ mp.outs[1] # "error"
     /\ ~ConvertibleTo(SessionResult(mp.ret.op, mp.one, mp.err).type, mp.outs[1])) =>
        \E i \in DOMAIN mp.ret.returns :
            mp.ret.returns[i].type = "error" /\ mp.ret.returns[i].k = "value"

\* C29: a call that is to reach a session operation hands it nil when there
\* are no arguments, the argument itself when there is one, and for
\* n > 1 arguments a map with exactly the keys param1..paramN, paramI holding
\* the I-th argument.
C29_ParameterMarshalling ==
    (mp.ret.done /\ OperationOf(mp.name, mp.outs) # "none") =>
        /\ mp.ret.op = OperationOf(mp.name, mp.outs)
        /\ Len(mp.args) = 0 => mp.ret.parameter.kind = "nil"
        /\ Len(mp.args) = 1 =>
              mp.ret.parameter.kind = "value" /\ mp.ret.parameter.v = mp.args[1]
        /\ Len(mp.args) > 1 =>
              /\ mp.ret.parameter.kind = "map"
              /\ DOMAIN mp.ret.parameter.m = {<<"param", i>> : i \in 1..Len(mp.args)}
              /\ \A i \in 1..Len(mp.args) :
                    mp.ret.parameter.m[<<"param", i>>] = mp.args[i]


\* what a call on a closed session answers: the statement operations, Commit
\* and Rollback 'session is closed' with nothing executed and no interceptor
\* entered, GetMapper nil, Close nil
ClosedAnswer ==
    CASE sRes.op \in {"SelectOne", "SelectList", "Insert", "Update", "Delete",
                      "Commit", "Rollback"} ->
            /\ sRes.err = "session is closed"
            /\ sRes.execSQL = <<>>
            /\ sRes.entered = <<>>
      [] sRes.op = "GetMapper" -> sRes.val = "nil"
      [] sRes.op = "Close" -> sRes.err = "nil"
      [] OTHER -> TRUE

\* C30: a closed session stays closed, whatever is called on it, until the
\* factory opens a new one; and every call made on it while it is closed gets
\* the closed answer.
C30_ClosedForever ==
    /\ [](sClosed => ClosedAnswer)
    /\ [][sClosed => (sClosed' \/ sRes'.op = "OpenSession")]_vars

\* Commit was called on a closed session
C30_Witness ==
    /\ sClosed
    /\ sRes.op = "Commit"
    /\ sRes.err = "session is closed"


\* the statement operations of a session
StatementOps == {"SelectOne", "SelectList", "Insert", "Update", "Delete"}

\* the statement type an operation works on
TypeFor(op) ==
    CASE op \in {"SelectOne", "SelectList"} -> "SELECT"
      [] op = "Insert" -> "INSERT"
      [] op = "Update" -> "UPDATE"
      [] op = "Delete" -> "DELETE"

\* C31: on an open session an operation executes its statement only if the
\* statement id is registered and the statement's type matches the operation;
\* otherwise it returns 'statement not found' or the wrong-statement-type
\* error and nothing is executed.
C31_ExecutesOnlyMatchingStatement ==
    (sRes.op \in StatementOps /\ ~sClosed) =>
        IF StatementType(sRes.id) = "none"
        THEN sRes.err = "statement not found" /\ sRes.execSQL = <<>>
        ELSE IF StatementType(sRes.id) # TypeFor(sRes.op)
        THEN sRes.err = "wrong statement type" /\ sRes.execSQL = <<>>
        ELSE sRes.execSQL = StmtSQL(sRes.id)

\* Update was called with the id of a select statement on an open session
C31_Witness ==
    /\ ~sClosed
    /\ sRes.op = "Update"
    /\ sRes.id = "sel"
    /\ sRes.err = "wrong statement type"
    /\ sRes.execSQL = <<>>


\* C32: a successful ExecuteBatch has begun one transaction, executed the
\* queued statements in the order they were added, committed, returned one
\* result per statement in that order, and left the queue empty; on an empty
\* queue ExecuteBatch executes nothing.
C32_BatchRunsInOrderOnce ==
    (batch.called /\ batch.err = "nil") =>
        /\ statements = <<>>
        /\ Len(batch.tx) = (IF batch.before = <<>> THEN 0 ELSE Len(batch.before) + 2)
        /\ batch.before # <<>> =>
              /\ batch.tx[1].ev = "Begin"
              /\ batch.tx[Len(batch.tx)].ev = "Commit"
              /\ \A i \in 1..Len(batch.before) :
                    batch.tx[i + 1].ev = "Exec" /\ batch.tx[i + 1].i = i
        /\ Len(batch.results) = Len(batch.before)
        /\ \A i \in 1..Len(batch.results) : batch.results[i].of = i

\* a batch of MaxBatch statements went through
C32_Witness ==
    /\ batch.called
    /\ batch.err = "nil"
    /\ Len(batch.before) = MaxBatch
    /\ Len(batch.results) = MaxBatch
    /\ statements = <<>>

\* C38: when binding or executing a queued statement fails, ExecuteBatch has
\* rolled the transaction back and not committed it, returns no results, and
\* the queue is what it was before the call.
C38_FailedBatchRollsBack ==
    (batch.called /\ batch.err \in {"failed to bind parameters",
                                    "failed to execute batch statement"}) =>
        /\ batch.tx # <<>>
        /\ batch.tx[Len(batch.tx)].ev = "Rollback"
        /\ \A i \in 1..Len(batch.tx) : batch.tx[i].ev # "Commit"
        /\ batch.results = <<>>
        /\ statements = batch.before

\* the second of two statements could not be bound, after the first ran
C38_Witness ==
    /\ batch.called
    /\ batch.err = "failed to bind parameters"
    /\ Len(batch.before) = 2
    /\ Len(batch.tx) = 3
    /\ batch.tx[2].ev = "Exec"
    /\ batch.tx[3].ev = "Rollback"
    /\ statements = batch.before


\* the last call of the log that names the name (0: none)
LastCallOn(log, name) ==
    LET at == {i \in DOMAIN log : log[i].name = name}
    IN  IF at = {} THEN 0 ELSE CHOOSE i \in at : \A j \in at : j <= i

\* the name is registered after the calls of the log
RegisteredAfter(log, name) ==
    /\ LastCallOn(log, name) # 0
    /\ log[LastCallOn(log, name)].op = "RegisterManager"

\* C33: GetManager(name) finds exactly the manager most recently registered
\* under the name and not removed since; RemoveManager(name) returns true if
\* and only if the name was registered; and the map holds, under every name,
\* the manager most recently registered and not removed since.
C33_RegistryTracksLatest ==
    /\ \A name \in ManagerNames :
          /\ (name \in DOMAIN managers) = RegisteredAfter(nameLog, name)
          /\ name \in DOMAIN managers =>
                managers[name] = nameLog[LastCallOn(nameLog, name)].manager
    /\ nameRes.op = "GetManager" =>
          /\ nameRes.ok = RegisteredAfter(nameLog, nameRes.name)
          /\ nameRes.ok =>
                nameRes.manager = nameLog[LastCallOn(nameLog, nameRes.name)].manager
          /\ ~nameRes.ok => nameRes.manager = "nil"
    /\ nameRes.op = "RemoveManager" =>
          nameRes.ok = RegisteredAfter(SubSeq(nameLog, 1, Len(nameLog) - 1),
                                       nameRes.name)

\* one name was removed, GetManager does not find it, and the manager under
\* the other name is still there
C33_Witness ==
    /\ nameRes.op = "GetManager"
    /\ nameRes.name = "custom"
    /\ ~nameRes.ok
    /\ nameLog # <<>>
    /\ nameLog[Len(nameLog)] = [op |-> "RemoveManager", name |-> "custom",
                                manager |-> "nil"]
    /\ "default" \in DOMAIN managers
    /\ managers["default"] = "m1"


\* C34: for a method that declares more than two return values, a successful
\* operation gives the caller its result as the first return value and the
\* zero value as each of the others.
C34_FirstOfManyPopulated ==
    (/\ Invoked
     /\ Len(mp.outs) > 2
     /\ mp.ret.op # "none"
     /\ mp.err = "nil"
     /\ SessionResult(mp.ret.op, mp.one, mp.err).type # "nil") =>
        /\ Len(mp.ret.returns) = Len(mp.outs)
        /\ mp.ret.returns[1] = ValueOf(SessionResult(mp.ret.op, mp.one, mp.err).type)
        /\ \A i \in 2..Len(mp.outs) : mp.ret.returns[i] = Zero(mp.outs[i])

\* C35: each interceptor of a chain's snapshot is entered at most once per
\* PluginChain instance, and the chain's cursor never exceeds the number of
\* interceptors and, as long as the chain is the same instance (no
\* NewPluginChain in between), never decreases, whatever the interceptors do
\* and however often Proceed is called.
C35_EnteredAtMostOnceCursorMonotone ==
    /\ [](/\ \A i \in Indices(chainPlugins) : Count(i) <= 1
          /\ currentIndex <= Len(chainPlugins))
    /\ [][calls' # 0 => currentIndex' >= currentIndex]_vars

\* a chain of two interceptors on its second Proceed call, the first
\* interceptor having called invocation.Proceed() more than once
C35_Witness ==
    /\ calls = 2
    /\ Len(chainPlugins) = 2
    /\ currentIndex = 2
    /\ enterLog = <<1, 2>>
    /\ procCalls[1] = MaxProceedCalls
    /\ callTerm > 0

\* the number of times the callback at position j was run
RollbackRuns(j) == Cardinality({k \in Indices(rollbackLog) : rollbackLog[k] = j})

\* C36: within one Proceed call each registered rollback callback is run at
\* most once: while the call is still inside its interceptors, whatever
\* errors the nested invocation.Proceed() calls have returned, no callback
\* has been run, and when the call has returned none was run twice.
C36_RollbackAtMostOncePerCall ==
    /\ \A j \in Indices(rollbackFuncs) : RollbackRuns(j) <= 1
    /\ pc = "running" => rollbackLog = <<>>

\* the terminal call's error went up through two interceptors to Proceed,
\* which ran both callbacks
C36_Witness ==
    /\ Returned
    /\ Len(chainPlugins) = 2
    /\ enterLog = <<1, 2>>
    /\ termFailed
    /\ chainResult = TermErr
    /\ rollbackFuncs = <<"ok", "ok">>
    /\ rollbackLog = <<2, 1>>

\* what the one terminal call of a dispatch returned
TerminalOutcome == IF termFailed THEN TermErr ELSE TermOK

\* C39: a chain made only of pass-through interceptors is transparent: with
\* no rollback callback registered, InterceptMethod has made the terminal
\* call once and returns exactly its value and its error, as it does with an
\* empty registry, where the terminal is called directly.
C39_PassThroughTransparent ==
    ( /\ viaManager
      /\ pc \in {"none", "idle"}
      /\ passThrough
      /\ rollbackFuncs = <<>> )
    => ( /\ termCalls = 1
         /\ callTerm = 1
         /\ rollbackLog = <<>>
         /\ lastResult = TerminalOutcome )

\* two pass-through interceptors handed the terminal call's error up
C39_Witness ==
    /\ viaManager
    /\ pc = "idle"
    /\ passThrough
    /\ rollbackFuncs = <<>>
    /\ enterLog = <<1, 2>>
    /\ termFailed
    /\ lastResult = TermErr

\* the SQL text has an ORDER BY clause, however it is spelled and spaced
HasOrderByClause(sql) ==
    \E i \in DOMAIN sql : sql[i] \in {"order by", "ORDER BY", "ORDER  BY"}

\* C40: what buildPagedSQL returns is the original SQL followed either by
\* LIMIT <size> OFFSET <offset> alone, or by ORDER BY <col> <dir> and then
\* LIMIT <size> OFFSET <offset>, where col is the SortBy text and matches the
\* identifier grammar, dir is ASC or DESC, and the original SQL has no
\* ORDER BY clause.
C40_AppendsOnlyCheckedText ==
    sRes.op = "buildPagedSQL" =>
        LET limit == <<"LIMIT", sRes.arg.Size, "OFFSET", sRes.arg.Offset>>
        IN  \/ sRes.pagedSQL = sRes.recv.sql \o limit
            \/ /\ \E dir \in {"ASC", "DESC"} :
                    sRes.pagedSQL = sRes.recv.sql \o <<"ORDER BY">>
                                        \o sRes.arg.SortBy \o <<dir>> \o limit
               /\ InGrammar(sRes.arg.SortBy)
               /\ ~HasOrderByClause(sRes.recv.sql)

\* goroutine t is inside Proceed, past chain.mutex.Lock()
InsideProceed(t) == callerState[t].pc \in {"check", "run"}

\* C37: two goroutines that call Proceed on the same chain are never inside
\* it together: a call makes its completed check, and runs interceptors,
\* only while no other call is past the Lock, and it holds the mutex then.
C37_ProceedCallsDoNotInterleave ==
    \A t \in Callers :
        InsideProceed(t) =>
            /\ sharedChain.mutex.writer = t
            /\ \A u \in Callers \ {t} : ~InsideProceed(u)

\* goroutine 1 is among the interceptors while goroutine 2 waits at the Lock
C37_Witness ==
    /\ callerState[1].pc = "run"
    /\ sharedChain.currentIndex = 1
    /\ Len(sharedChain.plugins) = 2
    /\ callerState[2].pc = "lock"
    /\ callerState[2].calls = 2
    /\ callerState[2].ret = NoResult

====
